---- MODULE Spec2Model ----
(***************************************************************************)
(* Model of the ingestion core of eki-team/etl-service:                    *)
(*   - ChunkingService.create_chunks   (app/services/chunking_service.py)  *)
(*   - PDFProcessor.create_chunks      (app/services/pdf_processor.py)     *)
(*   - DuplicateDetectionService       (app/services/duplicate_detection.py)*)
(*   - TagGenerator                    (app/services/tag_generator.py)     *)
(* A text is a sequence of one-character strings; Python's 0-based,        *)
(* end-exclusive positions are kept as they are in the source.             *)
(***************************************************************************)
EXTENDS Integers, Sequences, FiniteSets, TLC

\* ---------------------------------------------------------------- bounds
MaxLen == 4
MaxSize == 5
MaxOverlap == 5
MaxPat == 3
MaxRep == 8
\* texts of whole sentences: the words of a sentence, the sentences and the
\* characters after the last sentence
MaxSentence == 4
MaxSentences == 2
MaxTail == 2
\* documents stored by one bulk insert, and single inserts per behaviour
BulkSize == 100
MaxSingles == 2
\* documents in the collection
MaxDocs == 102
\* provider calls of one find_similar_chunk that may fail (call 0 embeds the
\* new text, call i the i-th candidate)
MaxFailCall == 1
\* ingestion: the articles of a request, the chunks of a document and the
\* size of the collection
MaxArticles == 2
MaxChunks == 2
MaxStored == 3
MaxLoadChunks == 3
MaxFiles == 2
MaxRequests == 2
\* the calls of process_articles the event loop runs at the same time
MaxHandlers == 2
\* generate_embeddings_batch: the number of texts, the small batch sizes and
\* a batch size that can be halved above the floor
MaxTexts == 3
MaxSmallBatch == 2
LargeBatch == 45
\* cosine_similarity: the largest coordinate of a vector
MaxCoord == 3
\* generate_tags: the words of a text and the values of max_tags
MaxWords == 4
MaxTags == 3
\* no loop of the model runs longer than this; above every text length
MaxIterations == MaxPat * MaxRep + MaxLen + 2

\* --------------------------------------------------------------- helpers
Min(S) == CHOOSE x \in S : \A y \in S : x <= y
Max(S) == CHOOSE x \in S : \A y \in S : x >= y
Min2(a, b) == IF a <= b THEN a ELSE b
Max2(a, b) == IF a >= b THEN a ELSE b

\* characters the chunkers distinguish: a word character, the three
\* sentence terminators and whitespace
Alphabet == {"a", ".", "?", "!", " "}
\* the characters of the patterns that the longer texts repeat
PatternAlphabet == {"a", ".", " "}
Whitespace == {" "}
Terminators == {".", "?", "!"}

\* python text[a:b] for 0 <= a, 0 <= b
Slice(s, a, b) == SubSeq(s, a + 1, Min2(b, Len(s)))

\* python s.rfind(c): 0-based index of the last occurrence, -1 if none
RFind(s, c) ==
  LET I == {i \in 1..Len(s) : s[i] = c}
  IN IF I = {} THEN -1 ELSE Max(I) - 1

\* python s.find(c + ' '): 0-based index of the first c followed by a space
FindPair(s, c) ==
  LET I == {i \in 1..(Len(s) - 1) : s[i] = c /\ s[i + 1] = " "}
  IN IF I = {} THEN -1 ELSE Min(I) - 1

\* python s.strip()
RECURSIVE LStrip(_)
LStrip(s) == IF s # <<>> /\ Head(s) \in Whitespace THEN LStrip(Tail(s)) ELSE s
RECURSIVE RStrip(_)
RStrip(s) ==
  IF s # <<>> /\ s[Len(s)] \in Whitespace THEN RStrip(SubSeq(s, 1, Len(s) - 1)) ELSE s
Strip(s) == RStrip(LStrip(s))

\* python len(s.split()): number of maximal runs of non-whitespace
WordCount(s) ==
  Cardinality({i \in 1..Len(s) :
                 s[i] \notin Whitespace /\ (i = 1 \/ s[i - 1] \in Whitespace)})

VARIABLES
  service,       \* which create_chunks is being called: "chunking" or "pdf"
  text,          \* the text argument
  size,          \* chunk_size
  overlap,       \* chunk_overlap
  pc,            \* position inside create_chunks
  start,         \* ChunkingService: local start
  previous_end,  \* ChunkingService: local previous_end
  chunk_index,   \* ChunkingService: local chunk_index
  chunks,        \* the list of chunks built so far / returned
  sentences,     \* PDFProcessor: the sentences of the cleaned text still to add
  current_chunk  \* PDFProcessor: local current_chunk

chunkVars == <<service, text, size, overlap, pc, start, previous_end, chunk_index,
               chunks, sentences, current_chunk>>

VARIABLES
  store,                 \* db['chunks']: the inserted batches of documents, oldest first
  similarity_threshold,  \* duplicate_detector.similarity_threshold, in 1/100
  call                   \* the last operation on the store and what it returned

dupVars == <<store, similarity_threshold, call>>

VARIABLES
  tag_text,          \* generate_tags: the text argument, as its list of words
  max_tags,          \* generate_tags: the max_tags argument
  include_domain,    \* generate_tags: the include_domain argument
  include_entities,  \* generate_tags: the include_entities argument
  tags,              \* generate_tags: the returned list
  tag_pc,            \* position of the generate_tags / generate_category call
  category           \* generate_category: the returned category

tagVars == <<tag_text, max_tags, include_domain, include_entities, tags, tag_pc,
             category>>

VARIABLES
  sim_service,  \* whose cosine_similarity is called: "duplicate" or "vector_search"
  vec1,         \* cosine_similarity: the vec1 argument
  vec2,         \* cosine_similarity: the vec2 argument
  similarity,   \* cosine_similarity: the returned float
  sim_pc        \* position of the cosine_similarity call

simVars == <<sim_service, vec1, vec2, similarity, sim_pc>>

VARIABLES
  emb_text,     \* generate_embedding: the text argument
  retry_count,  \* generate_embedding: the retry_count argument of the running call
  attempts,     \* what the provider answered to each embeddings.create so far
  waits,        \* the arguments of time.sleep so far, in milliseconds
  emb_result,   \* generate_embedding: the returned value
  emb_pc        \* position of the generate_embedding call

embVars == <<emb_text, retry_count, attempts, waits, emb_result, emb_pc>>

VARIABLES
  batch_texts,     \* generate_embeddings_batch: the texts argument
  batch_size,      \* generate_embeddings_batch: batch_size of the running pass
  batch_retry,     \* generate_embeddings_batch: retry_count of the running pass
  passes,          \* the batch_size of every pass started so far
  batch_i,         \* the loop variable i
  current_retry,   \* the local current_retry
  all_embeddings,  \* the local all_embeddings
  succeeded,       \* the indices of the texts whose embeddings.create of the
                   \* running pass succeeded
  batch_error,     \* the exception that reached the outer except, if any
  batch_result,    \* the returned list
  batch_pc         \* position of the generate_embeddings_batch call

batchVars == <<batch_texts, batch_size, batch_retry, passes, batch_i, current_retry,
               all_embeddings, succeeded, batch_error, batch_result, batch_pc>>

VARIABLES
  op,                    \* the ingestion operation in progress
  db_chunks,             \* db['chunks'] as the ingestion operations fill it
  articles,              \* process_articles: the titles of the articles argument
  generate_embeddings,   \* process_articles: the generate_embeddings argument
  check_duplicates,      \* process_articles: the check_duplicates argument
  dry_run,               \* process_articles: the dry_run argument
  article_index,         \* process_articles: the number of articles the loop has taken
  fates,                 \* how the loop body ended for each article taken
  queries,               \* the find_similar_chunk calls the request has made
  results,               \* process_articles: the local results
  failed_articles,       \* process_articles: the local failed_articles
  total_chunks_created,  \* process_articles, load_articles_from_json: the local
  response,              \* process_articles, load_articles_from_json: the returned summary
  all_chunks_data,       \* load_articles_from_json: the chunk documents of phase 1 to 3
  rejected,              \* the positions of all_chunks_data the storage never accepts
  fallback_index,        \* load_articles_from_json: the chunks the fallback loop has taken
  load_stats,            \* load_articles_from_json: total_articles, articles_processed,
                         \* articles_failed after phase 1
  upload_response,       \* upload_pdf: the summary it returned last
  chunks_response,       \* get_chunks_by_pdf: what it answered last
  requests               \* the ingestion operations the application has finished

ingestVars == <<op, db_chunks, articles, generate_embeddings, check_duplicates, dry_run,
                article_index, fates, queries, results, failed_articles,
                total_chunks_created, response, all_chunks_data, rejected, fallback_index,
                load_stats, upload_response, chunks_response, requests>>

loadVars == <<all_chunks_data, rejected, fallback_index, load_stats, requests>>

pdfVars == <<upload_response, chunks_response>>

VARIABLES
  article_processor,  \* the shared ArticleProcessor: its chunk_size and chunk_overlap
  handlers            \* the concurrent calls of process_articles: where each one is
                      \* suspended, its arguments and the settings it has used

concVars == <<article_processor, handlers>>

vars == <<chunkVars, dupVars, tagVars, simVars, embVars, batchVars, ingestVars, concVars>>

\* what the operations of each service leave alone
outsideChunk == <<dupVars, tagVars, simVars, embVars, batchVars, ingestVars, concVars>>
outsideDup == <<chunkVars, tagVars, simVars, embVars, batchVars, ingestVars, concVars>>
outsideTags == <<chunkVars, dupVars, simVars, embVars, batchVars, ingestVars, concVars>>
outsideSim == <<chunkVars, dupVars, tagVars, embVars, batchVars, ingestVars, concVars>>
outsideEmb == <<chunkVars, dupVars, tagVars, simVars, batchVars, ingestVars, concVars>>
outsideBatch == <<chunkVars, dupVars, tagVars, simVars, embVars, ingestVars, concVars>>
outsideIngest == <<chunkVars, dupVars, tagVars, simVars, embVars, batchVars, concVars>>

\* ------------------------------------------------------------ the inputs
RECURSIVE Repeat(_, _)
Repeat(p, n) == IF n = 0 THEN <<>> ELSE p \o Repeat(p, n - 1)

\* every short text
ShortTexts == UNION {[1..n -> Alphabet] : n \in 0..MaxLen}
\* longer texts: a short pattern repeated
PeriodicTexts ==
  {Repeat(p, n) : p \in UNION {[1..k -> PatternAlphabet] : k \in 1..MaxPat}, n \in 1..MaxRep}
\* texts of equal sentences: "aaaa.aaaa.aa"
SentenceTexts ==
  {Repeat(Repeat(<<"a">>, k) \o <<".">>, n) \o Repeat(<<"a">>, r) :
     k \in 1..MaxSentence, n \in 1..MaxSentences, r \in 0..MaxTail}
Texts == ShortTexts \cup PeriodicTexts \cup SentenceTexts

\* ------------------------------------------- ChunkingService.create_chunks
\* the window end and the sentence-snapped end of the chunk starting at s
WindowEnd(t, s, sz) == Min2(s + sz, Len(t))

BreakPoint(ct) == Max({RFind(ct, "."), RFind(ct, "?"), RFind(ct, "!")})

ActualEnd(t, s, sz) ==
  LET end == WindowEnd(t, s, sz)
      bp  == BreakPoint(Slice(t, s, end))
  IN IF end < Len(t) /\ 2 * bp > sz THEN s + bp + 1 ELSE end

\* the overlap measured from one character before the end of the chunk
OverlapStartOffByOne(actual_end, ov) == Max2(0, actual_end - ov - 1)

\* the overlap taken twice
OverlapStartTwice(actual_end, ov) == Max2(0, actual_end - 2 * ov)

OverlapStart(actual_end, ov) == Max2(0, actual_end - ov)

\* the start of the next chunk, before the forward-progress correction
SentenceStart(t, actual_end, ov) ==
  LET os    == OverlapStart(actual_end, ov)
      ot    == Slice(t, os, actual_end)
      valid == {x \in {FindPair(ot, "."), FindPair(ot, "?"), FindPair(ot, "!")} : x # -1}
  IN IF valid # {} THEN os + Min(valid) + 2 ELSE os

\* the same without the "ensure we always move forward" correction
NextStartNoProgress(t, actual_end, ov, prev_end) ==
  IF actual_end < Len(t) THEN SentenceStart(t, actual_end, ov) ELSE actual_end

NextStart(t, actual_end, ov, prev_end) ==
  IF actual_end < Len(t)
  THEN LET s == SentenceStart(t, actual_end, ov)
       IN IF s <= prev_end THEN prev_end + 1 ELSE s
  ELSE actual_end

\* the early return for an empty or short text
IsShort(t, sz) == Len(t) = 0 \/ Len(t) < sz

\* the short text stripped as the chunks of the loop are
ShortChunkStripped(t) ==
  [text |-> Strip(t), chunk_index |-> 0, total_chunks |-> 1,
   char_count |-> Len(t), word_count |-> WordCount(t)]

ShortChunk(t) ==
  [text |-> t, chunk_index |-> 0, total_chunks |-> 1,
   char_count |-> Len(t), word_count |-> WordCount(t)]

LoopChunk(t, s, actual_end, idx) ==
  LET chunk_text == Slice(t, s, actual_end)
  IN [text |-> Strip(chunk_text), chunk_index |-> idx,
      char_count |-> Len(chunk_text), word_count |-> WordCount(chunk_text),
      start_pos |-> s, end_pos |-> actual_end]

\* total_chunks written as the number of chunks up to this one
WithRunningTotal(cs) == [i \in 1..Len(cs) |-> cs[i] @@ [total_chunks |-> i]]

\* the pass after the loop that writes total_chunks into every chunk
WithTotalChunks(cs) == [i \in 1..Len(cs) |-> cs[i] @@ [total_chunks |-> Len(cs)]]

ShortReturn ==
  /\ service = "chunking"
  /\ pc = "call"
  /\ IsShort(text, size)
  /\ chunks' = <<ShortChunk(text)>>
  /\ pc' = "done"
  /\ UNCHANGED <<service, text, size, overlap, start, previous_end, chunk_index,
                 sentences, current_chunk, outsideChunk>>

LoopEntry ==
  /\ service = "chunking"
  /\ pc = "call"
  /\ ~IsShort(text, size)
  /\ chunks' = <<>>
  /\ start' = 0
  /\ chunk_index' = 0
  /\ previous_end' = 0
  /\ pc' = "loop"
  /\ UNCHANGED <<service, text, size, overlap, sentences, current_chunk, outsideChunk>>

\* one iteration of "while start < len(text)"
LoopIteration ==
  /\ service = "chunking"
  /\ pc = "loop"
  /\ start < Len(text)
  /\ chunk_index < MaxIterations
  /\ LET actual_end == ActualEnd(text, start, size)
     IN /\ chunks' = Append(chunks, LoopChunk(text, start, actual_end, chunk_index))
        /\ start' = NextStart(text, actual_end, overlap, previous_end)
        /\ previous_end' = actual_end
        /\ chunk_index' = chunk_index + 1
  /\ UNCHANGED <<service, text, size, overlap, pc, sentences, current_chunk, outsideChunk>>

\* the loop has ended: second pass writing total_chunks, then return
UpdateTotalChunks ==
  /\ service = "chunking"
  /\ pc = "loop"
  /\ ~(start < Len(text))
  /\ chunks' = WithTotalChunks(chunks)
  /\ pc' = "done"
  /\ UNCHANGED <<service, text, size, overlap, start, previous_end, chunk_index,
                 sentences, current_chunk, outsideChunk>>

\* ---------------------------------------------- PDFProcessor.create_chunks
\* re.sub(r'\s+', ' ', text): every run of whitespace becomes one space
RECURSIVE CollapseWhitespace(_)
CollapseWhitespace(s) ==
  IF s = <<>> THEN <<>>
  ELSE IF Head(s) \in Whitespace
       THEN <<" ">> \o CollapseWhitespace(LStrip(s))
       ELSE <<Head(s)>> \o CollapseWhitespace(Tail(s))

\* PDFProcessor.clean_text; every character of Alphabet is in its allow-list
PdfCleanText(s) == Strip(CollapseWhitespace(s))

\* re.split(r'(?<=[.!?])\s+', text); pieces stripped, empty pieces dropped
RECURSIVE SplitAfterTerminator(_, _)
SplitAfterTerminator(s, acc) ==
  IF s = <<>> THEN <<acc>>
  ELSE IF acc # <<>> /\ acc[Len(acc)] \in Terminators /\ Head(s) \in Whitespace
       THEN <<acc>> \o SplitAfterTerminator(LStrip(s), <<>>)
       ELSE SplitAfterTerminator(Tail(s), Append(acc, Head(s)))

SplitIntoSentences(s) ==
  SelectSeq([i \in 1..Len(SplitAfterTerminator(s, <<>>)) |->
               Strip(SplitAfterTerminator(s, <<>>)[i])],
            LAMBDA x : x # <<>>)

\* current_chunk[-chunk_overlap:] if len(current_chunk) > chunk_overlap
\* else current_chunk; python's s[-0:] is the whole of s
OverlapText(cur, ov) ==
  IF Len(cur) > ov
  THEN IF ov = 0 THEN cur ELSE SubSeq(cur, Len(cur) - ov + 1, Len(cur))
  ELSE cur

PdfChunk(cur) ==
  [text |-> Strip(cur), char_count |-> Len(cur), word_count |-> WordCount(cur)]

\* the enumerate pass that writes chunk_index and total_chunks
WithIndices(cs) ==
  [i \in 1..Len(cs) |-> cs[i] @@ [chunk_index |-> i - 1, total_chunks |-> Len(cs)]]

\* clean_text, the empty-text return, split_into_sentences
PdfEntry ==
  /\ service = "pdf"
  /\ pc = "call"
  /\ chunks' = <<>>
  /\ current_chunk' = <<>>
  /\ IF PdfCleanText(text) = <<>>
     THEN pc' = "done" /\ sentences' = <<>>
     ELSE pc' = "loop" /\ sentences' = SplitIntoSentences(PdfCleanText(text))
  /\ UNCHANGED <<service, text, size, overlap, start, previous_end, chunk_index, outsideChunk>>

\* one iteration of "for sentence in sentences"
PdfSentence ==
  /\ service = "pdf"
  /\ pc = "loop"
  /\ sentences # <<>>
  /\ LET sentence == Head(sentences)
     IN IF Len(current_chunk) + Len(sentence) + 1 > size /\ current_chunk # <<>>
        THEN /\ chunks' = Append(chunks, PdfChunk(current_chunk))
             /\ current_chunk' = OverlapText(current_chunk, overlap) \o <<" ">> \o sentence
        ELSE /\ chunks' = chunks
             /\ current_chunk' = IF current_chunk # <<>>
                                 THEN current_chunk \o <<" ">> \o sentence
                                 ELSE sentence
  /\ sentences' = Tail(sentences)
  /\ UNCHANGED <<service, text, size, overlap, pc, start, previous_end, chunk_index, outsideChunk>>

\* the last chunk, the indices, return
PdfFinish ==
  /\ service = "pdf"
  /\ pc = "loop"
  /\ sentences = <<>>
  /\ chunks' = WithIndices(IF current_chunk # <<>>
                           THEN Append(chunks, PdfChunk(current_chunk))
                           ELSE chunks)
  /\ pc' = "done"
  /\ UNCHANGED <<service, text, size, overlap, start, previous_end, chunk_index,
                 sentences, current_chunk, outsideChunk>>

\* --------------------------------------------- DuplicateDetectionService
\* python's None where a string is expected (no source_type filter) and
\* where a match record is expected (no match)
None == "None"
Absent == [absent |-> TRUE]

\* .limit(100) of the candidate query
WindowLimit == 100

\* similarities are kept in 1/SimScale
SimScale == 100

\* the stored texts and the vector the embedding provider returns for each;
\* the vectors have integer norms, so the cosines below are exact
DocTexts == {"T1", "T2", "T3"}
Embedding(t) ==
  CASE t = "T1" -> <<3, 4>>
    [] t = "T2" -> <<4, 3>>
    [] t = "T3" -> <<5, 0>>

SourceTypes == {"article", "pdf"}
Thresholds == {50, 95, 100, 101}

Dot(v1, v2) == v1[1] * v2[1] + v1[2] * v2[2]
ISqrt(n) == CHOOSE r \in 0..n : r * r <= n /\ (r + 1) * (r + 1) > n
Norm(v) == ISqrt(Dot(v, v))

\* raw cosine, 0 when a norm is 0
CosineSimilarity(v1, v2) ==
  IF Norm(v1) = 0 \/ Norm(v2) = 0
  THEN 0
  ELSE (Dot(v1, v2) * SimScale) \div (Norm(v1) * Norm(v2))

Reverse(seq) == [i \in 1..Len(seq) |-> seq[Len(seq) + 1 - i]]

\* find(query): the documents of the given source_type, all when no
\* source_type is given
Matches(d, source_type) == source_type = None \/ d.source_type = source_type

\* the stored documents sorted oldest first instead
CandidatesOldestFirst(docs, source_type) ==
  LET matching == SelectSeq(docs, LAMBDA d : Matches(d, source_type))
  IN SubSeq(matching, 1, Min2(WindowLimit, Len(matching)))

\* find(query).sort("created_at", -1).limit(100); the store is in created_at
\* order, so sorting descending reverses it
Candidates(docs, source_type) ==
  LET matching == Reverse(SelectSeq(docs, LAMBDA d : Matches(d, source_type)))
  IN SubSeq(matching, 1, Min2(WindowLimit, Len(matching)))

\* the similarity of the embeddings of two texts, computed once per pair
TextSimilarity ==
  [t1 \in DocTexts, t2 \in DocTexts |-> CosineSimilarity(Embedding(t1), Embedding(t2))]

\* the loop over the candidates: the embedding of the i-th candidate is
\* generated by provider call i; the candidate is kept when that call
\* succeeds and its similarity to the new text reaches the threshold
Similarities(cands, t, failed, threshold) ==
  LET kept == SelectSeq([i \in 1..Len(cands) |-> i],
                        LAMBDA i : i \notin failed
                                   /\ TextSimilarity[t, cands[i].text] >= threshold)
  IN [k \in 1..Len(kept) |->
        [chunk_id |-> cands[kept[k]].id,
         similarity |-> TextSimilarity[t, cands[kept[k]].text],
         source_type |-> cands[kept[k]].source_type,
         created_at |-> cands[kept[k]].created_at]]

\* the first entry that reached the threshold, whatever its similarity
FirstMatch(sims) == IF sims = <<>> THEN Absent ELSE sims[1]

\* similarities.sort(reverse=True) is stable: the first of the entries with
\* the highest similarity; absent when there is none
BestMatch(sims) ==
  IF sims = <<>> THEN Absent
  ELSE LET highest == Max({sims[i].similarity : i \in 1..Len(sims)})
       IN SelectSeq(sims, LAMBDA e : e.similarity = highest)[1]

\* what find_similar_chunk returns, given the fetched candidates
FindSimilar(cands, t, failed, threshold) ==
  IF 0 \in failed THEN Absent
  ELSE BestMatch(Similarities(cands, t, failed, threshold))

\* the ids of the candidates the call compared the new text against
Compared(cands, failed) ==
  IF 0 \in failed THEN <<>> ELSE [i \in 1..Len(cands) |-> cands[i].id]

NewDoc(n, t, source_type) ==
  [id |-> n, text |-> t, source_type |-> source_type, created_at |-> n]

\* the documents of the collection, oldest first: the documents of every
\* batch, each stamped with its own created_at when it was built
RECURSIVE Docs(_)
Docs(batches) ==
  IF batches = <<>> THEN <<>>
  ELSE LET last  == batches[Len(batches)]
           older == Docs(SubSeq(batches, 1, Len(batches) - 1))
       IN older \o [i \in 1..last.count |->
                      NewDoc(Len(older) + i, last.text, last.source_type)]

\* the number of batches of n documents inserted so far
BatchesOf(n) == Cardinality({i \in 1..Len(store) : store[i].count = n})

\* the number of documents in the collection
DocCount == Len(Docs(store))

NoCall == [op |-> "none"]

\* db['chunks'].insert_one(chunk_doc)
InsertOne ==
  /\ call = NoCall
  /\ BatchesOf(1) < MaxSingles
  /\ DocCount + 1 <= MaxDocs
  /\ \E t \in DocTexts, st \in SourceTypes :
        store' = Append(store, [text |-> t, source_type |-> st, count |-> 1])
  /\ UNCHANGED <<call, similarity_threshold, outsideDup>>

\* db.chunks.insert_many(all_chunks_data)
InsertMany ==
  /\ call = NoCall
  /\ DocCount + BulkSize <= MaxDocs
  /\ \E t \in DocTexts, st \in SourceTypes :
        store' = Append(store, [text |-> t, source_type |-> st, count |-> BulkSize])
  /\ UNCHANGED <<call, similarity_threshold, outsideDup>>

\* duplicate_detector.similarity_threshold = similarity_threshold
SetThreshold ==
  /\ call = NoCall
  /\ \E th \in Thresholds : similarity_threshold' = th
  /\ UNCHANGED <<call, store, outsideDup>>

\* duplicate_detector.find_similar_chunk(text, db, source_type) runs to its
\* return statement
FindSimilarChunk ==
  /\ call = NoCall
  /\ \E st \in SourceTypes \cup {None} :
        LET cands == Candidates(Docs(store), st)
        IN \E t \in DocTexts, failed \in SUBSET (0..MaxFailCall) :
              call' = [op |-> "find", text |-> t, source_type |-> st, failed |-> failed,
                       compared |-> Compared(cands, failed),
                       result |-> FindSimilar(cands, t, failed, similarity_threshold)]
  /\ UNCHANGED <<store, similarity_threshold, outsideDup>>

\* the caller takes the result
FindReturn ==
  /\ call.op = "find"
  /\ call' = NoCall
  /\ UNCHANGED <<store, similarity_threshold, outsideDup>>

\* ------------------------------------------------------------ TagGenerator
\* A text is a list of words separated by single spaces. The words cover a
\* capitalized word that is a domain keyword, a capitalized word that is
\* none, an all-capitals word, a lower-case keyword and a stop word.
Vocabulary == {"Mars", "Habitat", "NASA", "launch", "the"}

\* str.lower() of each word
Lower == [Mars |-> "mars", Habitat |-> "habitat", NASA |-> "nasa",
          launch |-> "launch", the |-> "the", study |-> "study",
          system |-> "system"]

\* len() of each lower-cased word
WordLen == [mars |-> 4, habitat |-> 7, nasa |-> 4, launch |-> 6, the |-> 3,
            study |-> 5, system |-> 6]

\* the words matched by [A-Z][a-z]+
Capitalized == {"Mars", "Habitat"}

STOP_WORDS ==
  {"the", "be", "to", "of", "and", "a", "in", "that", "have", "i", "it",
   "for", "not", "on", "with", "he", "as", "you", "do", "at", "this",
   "but", "his", "by", "from", "they", "we", "say", "her", "she", "or",
   "an", "will", "my", "one", "all", "would", "there", "their", "what",
   "so", "up", "out", "if", "about", "who", "get", "which", "go", "me",
   "when", "make", "can", "like", "time", "no", "just", "him", "know",
   "take", "people", "into", "year", "your", "good", "some", "could",
   "them", "see", "other", "than", "then", "now", "look", "only", "come",
   "its", "over", "think", "also", "back", "after", "use", "two", "how",
   "our", "work", "first", "well", "way", "even", "new", "want", "because",
   "any", "these", "give", "day", "most", "us", "is", "was", "are", "been",
   "has", "had", "were", "said", "did", "having", "may", "should", "am",
   "being", "does"}

\* the categories in dictionary order, each with its keywords
DOMAIN_KEYWORDS ==
  << [category |-> "space",
      keywords |-> {"space", "spacecraft", "orbital", "satellite", "cosmos",
                    "universe"}],
     [category |-> "nasa",
      keywords |-> {"nasa", "agency", "administration", "aeronautics"}],
     [category |-> "astronomy",
      keywords |-> {"astronomy", "astronomical", "telescope", "observatory",
                    "celestial"}],
     [category |-> "planets",
      keywords |-> {"planet", "mars", "jupiter", "saturn", "venus", "mercury",
                    "neptune", "uranus", "earth"}],
     [category |-> "mission",
      keywords |-> {"mission", "expedition", "voyage", "exploration", "probe"}],
     [category |-> "technology",
      keywords |-> {"technology", "engineering", "system", "instrument",
                    "equipment"}],
     [category |-> "science",
      keywords |-> {"science", "scientific", "research", "study", "discovery",
                    "data"}],
     [category |-> "rocket",
      keywords |-> {"rocket", "launch", "booster", "propulsion"}],
     [category |-> "galaxy",
      keywords |-> {"galaxy", "galaxies", "milky way", "nebula", "star",
                    "stars"}],
     [category |-> "physics",
      keywords |-> {"physics", "quantum", "gravity", "relativity", "energy"}] >>

\* `keyword in cleaned_text`: the keywords that are substrings of each word
\* (no keyword of the vocabulary's reach spans a space)
KeywordsIn == [mars |-> {"mars"}, habitat |-> {}, nasa |-> {"nasa"},
               launch |-> {"launch"}, the |-> {}, study |-> {"study"},
               system |-> {"system"}]

\* the stop words of TfidfVectorizer(stop_words='english') among the words
SklearnStopWords == {"the"}

\* every lower-case word and category in ascending string order
WordOrder == <<"astronomy", "galaxy", "habitat", "launch", "mars", "mission",
               "nasa", "physics", "planets", "rocket", "science", "space",
               "study", "system", "technology", "the">>

WordRank(w) == CHOOSE i \in 1..Len(WordOrder) : WordOrder[i] = w

\* a tag is the list of its words; a < b as python compares the strings
\* (the space sorts before every letter)
RECURSIVE TagLess(_, _)
TagLess(a, b) ==
  IF a = <<>> THEN b # <<>>
  ELSE IF b = <<>> THEN FALSE
  ELSE IF a[1] = b[1] THEN TagLess(Tail(a), Tail(b))
  ELSE WordRank(a[1]) < WordRank(b[1])

TagTexts == UNION {[1..n -> Vocabulary] : n \in 0..MaxWords}

Range(s) == {s[i] : i \in 1..Len(s)}
Take(s, n) == SubSeq(s, 1, Min2(n, Len(s)))
Count(s, x) == Cardinality({i \in 1..Len(s) : s[i] = x})
Singleton(s) == [i \in 1..Len(s) |-> <<s[i]>>]

\* the keys of Counter(s), in order of first occurrence
RECURSIVE CounterKeys(_)
CounterKeys(s) ==
  IF s = <<>> THEN <<>>
  ELSE LET keys == CounterKeys(SubSeq(s, 1, Len(s) - 1))
       IN IF s[Len(s)] \in Range(keys) THEN keys ELSE Append(keys, s[Len(s)])

\* a stable sort of keys by descending count
RECURSIVE ByCountDescending(_, _)
ByCountDescending(keys, s) ==
  IF keys = <<>> THEN <<>>
  ELSE LET best == CHOOSE i \in 1..Len(keys) :
                     \A j \in 1..Len(keys) :
                        \/ Count(s, keys[j]) < Count(s, keys[i])
                        \/ Count(s, keys[j]) = Count(s, keys[i]) /\ i <= j
       IN <<keys[best]>> \o
          ByCountDescending(SubSeq(keys, 1, best - 1) \o
                            SubSeq(keys, best + 1, Len(keys)), s)

\* Counter(s).most_common(n)
MostCommon(s, n) == Take(ByCountDescending(CounterKeys(s), s), n)

\* clean_text(text).split()
CleanWords(t) == [i \in 1..Len(t) |-> Lower[t[i]]]

ExtractKeywordsFrequency(t, max_keywords) ==
  LET filtered_words == SelectSeq(CleanWords(t),
                          LAMBDA w : w \notin STOP_WORDS /\ WordLen[w] > 3)
  IN Singleton(MostCommon(filtered_words, max_keywords))

\* sorted(S) for a set of tags
RECURSIVE SortTags(_)
SortTags(S) ==
  IF S = {} THEN <<>>
  ELSE LET least == CHOOSE x \in S : \A y \in S \ {x} : TagLess(x, y)
       IN <<least>> \o SortTags(S \ {least})

\* TfidfVectorizer on one document: the features are the words of two or
\* more characters that are no stop word and the pairs of neighbours among
\* them, named in ascending order; every idf is 1, so a feature's score is
\* its count over a common norm. The sort by score is stable. An empty
\* vocabulary raises and the except branch returns the empty list.
ExtractKeywordsTfidf(t, max_keywords) ==
  LET tokens == SelectSeq(CleanWords(t),
                  LAMBDA w : w \notin SklearnStopWords /\ WordLen[w] >= 2)
      grams == [i \in 1..Len(tokens) |-> <<tokens[i]>>] \o
               [i \in 1..(Len(tokens) - 1) |-> <<tokens[i], tokens[i + 1]>>]
      feature_names == SortTags(Range(grams))
  IN Take(ByCountDescending(feature_names, grams), max_keywords)

ExtractDomainTags(t) ==
  LET present == UNION {KeywordsIn[w] : w \in Range(CleanWords(t))}
      hit == SelectSeq(DOMAIN_KEYWORDS, LAMBDA d : d.keywords \cap present # {})
  IN [i \in 1..Len(hit) |-> <<hit[i].category>>]

\* re.findall of runs of capitalized words
RECURSIVE CapitalizedRuns(_, _, _)
CapitalizedRuns(t, i, run) ==
  LET closed == IF run = <<>> THEN <<>> ELSE <<run>>
  IN IF i > Len(t) THEN closed
     ELSE IF t[i] \in Capitalized THEN CapitalizedRuns(t, i + 1, Append(run, t[i]))
     ELSE closed \o CapitalizedRuns(t, i + 1, <<>>)

\* len(entity): the words and the spaces between them
RECURSIVE EntityLen(_)
EntityLen(e) ==
  IF e = <<>> THEN 0
  ELSE WordLen[Lower[e[1]]] + (IF Len(e) > 1 THEN 1 ELSE 0) + EntityLen(Tail(e))

ExtractNamedEntities(t) ==
  LET capitalized == CapitalizedRuns(t, 1, <<>>)
      kept == SelectSeq(CounterKeys(capitalized),
                LAMBDA e : Count(capitalized, e) > 1 /\ EntityLen(e) > 3)
  IN Take([i \in 1..Len(kept) |-> CleanWords(kept[i])], 10)

\* the set all_tags before it is cut
AllTags(t, domain, entities) ==
  (IF domain THEN Range(ExtractDomainTags(t)) ELSE {})
  \cup Range(Take(ExtractKeywordsFrequency(t, 10), 5))
  \cup Range(Take(ExtractKeywordsTfidf(t, 10), 5))
  \cup (IF entities THEN Range(Take(ExtractNamedEntities(t), 3)) ELSE {})

\* list(all_tags)[:max_tags]: a set lists its members in an order the hash
\* seed decides, so any max_tags of them can be the ones that stay
KeepAll(all_tags, n) == {all_tags}

Truncations(all_tags, n) ==
  {kept \in SUBSET all_tags : Cardinality(kept) = Min2(n, Cardinality(all_tags))}

\* tag_generator.generate_tags(text, max_tags, include_domain, include_entities)
GenerateTags ==
  /\ tag_pc = "call"
  /\ \E kept \in Truncations(AllTags(tag_text, include_domain, include_entities),
                             max_tags) :
        tags' = SortTags(kept)
  /\ tag_pc' = "done"
  /\ UNCHANGED <<tag_text, max_tags, include_domain, include_entities, category,
                 outsideTags>>

\* the words of the texts generate_category is called with
CategoryVocabulary == {"Mars", "study", "launch", "system", "the"}

CategoryTexts == UNION {[1..n -> CategoryVocabulary] : n \in 0..MaxWords}

\* tags a caller can pass to generate_category without generate_tags
GivenTags == {<<"space">>, <<"planets">>, <<"science">>, <<"mars">>}

\* the content checks after the category loop, in the order of the if chain
CONTENT_CLUSTERS ==
  << [category |-> "science",
      words |-> {"research", "study", "data", "experiment"}],
     [category |-> "mission",
      words |-> {"mission", "launch", "expedition"}],
     [category |-> "technology",
      words |-> {"technology", "system", "engineering"}] >>

\* `word in cleaned_text`: the cluster words that are substrings of each word
ClusterWordsIn == [mars |-> {}, habitat |-> {}, nasa |-> {}, the |-> {},
                   launch |-> {"launch"}, study |-> {"study"},
                   system |-> {"system"}]

\* the category of the first of the records that passed the test, Default
\* when none did
FirstOr(hits, Default) == IF hits = <<>> THEN Default ELSE hits[1].category

ContentCategoryMissionFirst(t) ==
  LET present == UNION {ClusterWordsIn[w] : w \in Range(CleanWords(t))}
      order == <<CONTENT_CLUSTERS[2], CONTENT_CLUSTERS[1], CONTENT_CLUSTERS[3]>>
  IN FirstOr(SelectSeq(order, LAMBDA c : c.words \cap present # {}), "general")

ContentCategory(t) ==
  LET present == UNION {ClusterWordsIn[w] : w \in Range(CleanWords(t))}
  IN FirstOr(SelectSeq(CONTENT_CLUSTERS, LAMBDA c : c.words \cap present # {}), "general")

GenerateCategoryOf(t, given) ==
  FirstOr(SelectSeq(DOMAIN_KEYWORDS, LAMBDA d : <<d.category>> \in Range(given)),
          ContentCategory(t))

\* tag_generator.generate_category(text, tags)
GenerateCategory ==
  /\ tag_pc \in {"done", "given"}
  /\ category' = GenerateCategoryOf(tag_text, tags)
  /\ tag_pc' = "categorized"
  /\ UNCHANGED <<tag_text, max_tags, include_domain, include_entities, tags,
                 outsideTags>>

\* no generate_tags call in progress
TagIdle ==
  /\ tag_text = <<>>
  /\ max_tags = 1
  /\ include_domain = FALSE
  /\ include_entities = FALSE
  /\ tags = <<>>
  /\ tag_pc = "idle"
  /\ category = ""

\* no duplicate detection in progress, an empty collection
DupIdle ==
  /\ store = <<>>
  /\ similarity_threshold = 95
  /\ call = NoCall

\* no create_chunks call in progress
ChunkIdle ==
  /\ service = "none"
  /\ text = <<>>
  /\ size = 1
  /\ overlap = 0
  /\ pc = "idle"
  /\ start = 0
  /\ previous_end = 0
  /\ chunk_index = 0
  /\ chunks = <<>>
  /\ sentences = <<>>
  /\ current_chunk = <<>>

\* ------------------------------------------------- the two cosine_similarity
\* numpy computes in binary floating point and rounds every result to the
\* nearest float, ties to the even mantissa. The floats here are of the same
\* kind with MantissaBits bits of mantissa where float64 has 53 and with no
\* limit on the exponent: sign * m * 2^e with 2^(MantissaBits-1) <= m <
\* 2^MantissaBits, or zero.
MantissaBits == 5
MaxExp == 12
VecDim == 2

FloatZero == [sign |-> 0, m |-> 0, e |-> 0]

Abs(n) == IF n < 0 THEN -n ELSE n

\* the float nearest to the rational num / den, den > 0
FloatOf(num, den) ==
  IF num = 0 THEN FloatZero
  ELSE LET a == Abs(num)
           lo == 2^(MantissaBits - 1)
           hi == 2^MantissaBits
           e == CHOOSE x \in (-MaxExp)..MaxExp :
                  IF x >= 0 THEN lo * den * 2^x <= a /\ a < hi * den * 2^x
                  ELSE lo * den <= a * 2^(-x) /\ a * 2^(-x) < hi * den
           n == IF e < 0 THEN a * 2^(-e) ELSE a
           d == IF e < 0 THEN den ELSE den * 2^e
           q == n \div d
           r == n % d
           m == IF 2 * r > d \/ (2 * r = d /\ q % 2 = 1) THEN q + 1 ELSE q
           sign == IF num < 0 THEN -1 ELSE 1
       IN IF m = hi THEN [sign |-> sign, m |-> lo, e |-> e + 1]
          ELSE [sign |-> sign, m |-> m, e |-> e]

\* a float as the rational Num / Den
Num(f) == f.sign * f.m * (IF f.e > 0 THEN 2^f.e ELSE 1)
Den(f) == IF f.e < 0 THEN 2^(-f.e) ELSE 1

FloatOne == FloatOf(1, 1)

FMul(a, b) == FloatOf(Num(a) * Num(b), Den(a) * Den(b))
FAdd(a, b) == FloatOf(Num(a) * Den(b) + Num(b) * Den(a), Den(a) * Den(b))
FDiv(a, b) == FloatOf(b.sign * Num(a) * Den(b), Den(a) * Abs(Num(b)))
FLess(a, b) == Num(a) * Den(b) < Num(b) * Den(a)
FMin(a, b) == IF FLess(b, a) THEN b ELSE a
FMax(a, b) == IF FLess(a, b) THEN b ELSE a

\* the float nearest to the square root of a float a >= 0; a square root is
\* never halfway between two floats
FSqrt(a) ==
  IF a = FloatZero THEN FloatZero
  ELSE LET lo == 4^(MantissaBits - 1)
           hi == 4^MantissaBits
           f == CHOOSE x \in (-MaxExp)..MaxExp :
                  IF x >= 0 THEN lo * Den(a) * 4^x <= Num(a) /\ Num(a) < hi * Den(a) * 4^x
                  ELSE lo * Den(a) <= Num(a) * 4^(-x) /\ Num(a) * 4^(-x) < hi * Den(a)
           n == IF f < 0 THEN Num(a) * 4^(-f) ELSE Num(a)
           d == IF f < 0 THEN Den(a) ELSE Den(a) * 4^f
           r == CHOOSE x \in 0..(2^MantissaBits) :
                  x * x * d <= n /\ n < (x + 1) * (x + 1) * d
           m == IF n > (r * r + r) * d THEN r + 1 ELSE r
       IN IF m = 2^MantissaBits THEN [sign |-> 1, m |-> 2^(MantissaBits - 1), e |-> f + 1]
          ELSE [sign |-> 1, m |-> m, e |-> f]

Vectors == [1..VecDim -> (-MaxCoord)..MaxCoord]

\* np.dot(v1, v2)
RECURSIVE FDotUpTo(_, _, _)
FDotUpTo(v1, v2, k) ==
  IF k = 0 THEN FloatZero
  ELSE FAdd(FDotUpTo(v1, v2, k - 1), FMul(FloatOf(v1[k], 1), FloatOf(v2[k], 1)))

FDot(v1, v2) == FDotUpTo(v1, v2, Len(v1))

\* np.linalg.norm(v)
FNorm(v) == FSqrt(FDot(v, v))

\* dot_product / (norm_v1 * norm_v2), 0.0 when a norm is zero
RawCosine(v1, v2) ==
  LET dot_product == FDot(v1, v2)
      norm_v1 == FNorm(v1)
      norm_v2 == FNorm(v2)
  IN IF norm_v1 = FloatZero \/ norm_v2 = FloatZero THEN FloatZero
     ELSE FDiv(dot_product, FMul(norm_v1, norm_v2))

\* DuplicateDetectionService.cosine_similarity
DuplicateCosineSimilarity(v1, v2) == RawCosine(v1, v2)

\* VectorSearchService.cosine_similarity
VectorSearchCosineSimilarity(v1, v2) ==
  IF FNorm(v1) = FloatZero \/ FNorm(v2) = FloatZero THEN FloatZero
  ELSE FMax(FloatZero,
            FMin(FloatOne,
                 FDiv(FAdd(RawCosine(v1, v2), FloatOne), FloatOf(2, 1))))

\* cosine_similarity(vec1, vec2) of either service
ComputeSimilarity ==
  /\ sim_pc = "call"
  /\ similarity' = IF sim_service = "duplicate"
                   THEN DuplicateCosineSimilarity(vec1, vec2)
                   ELSE VectorSearchCosineSimilarity(vec1, vec2)
  /\ sim_pc' = "done"
  /\ UNCHANGED <<sim_service, vec1, vec2, outsideSim>>

\* no cosine_similarity call in progress
SimIdle ==
  /\ sim_service = "none"
  /\ vec1 = <<>>
  /\ vec2 = <<>>
  /\ similarity = FloatZero
  /\ sim_pc = "idle"

\* ------------------------------------------------------- EmbeddingService
\* settings.OPENAI_MAX_RETRIES
OPENAI_MAX_RETRIES == 3

\* the default wait_time of 1.0 second, in milliseconds
DefaultWaitMs == 1000

\* no number where one is looked for
NoNumber == -1

\* The exceptions embeddings.create raises, by the text of str(e): the HTTP
\* status of the answer, what the substring tests of the except branch give
\* on the text, what re.search(r'try again in (\d+)ms') captures, and the
\* wait the text asks for.
\*   RateLimitMs       "Error code: 429 - ... Please try again in 20ms. ...
\*                      'code': 'rate_limit_exceeded'"
\*   RateLimitSeconds  "Error code: 429 - ... Please try again in 2s. ...
\*                      'code': 'rate_limit_exceeded'"
\*   RateLimitPlain    "Error code: 429 - ... You exceeded your current quota"
\*   BadRequest        "Error code: 400 - ... you requested 9000 tokens"
\*   BadRequest429     "Error code: 400 - ... you requested 14291 tokens"
\*   Timeout           "Request timed out."
ProviderErrors ==
  [RateLimitMs |->
     [status |-> 429, rate_limit_or_429 |-> TRUE, try_again_in |-> TRUE,
      ms_match |-> 20, suggested_ms |-> 20, tokens_or_400 |-> FALSE],
   RateLimitSeconds |->
     [status |-> 429, rate_limit_or_429 |-> TRUE, try_again_in |-> TRUE,
      ms_match |-> NoNumber, suggested_ms |-> 2000, tokens_or_400 |-> FALSE],
   RateLimitPlain |->
     [status |-> 429, rate_limit_or_429 |-> TRUE, try_again_in |-> FALSE,
      ms_match |-> NoNumber, suggested_ms |-> NoNumber, tokens_or_400 |-> FALSE],
   BadRequest |->
     [status |-> 400, rate_limit_or_429 |-> FALSE, try_again_in |-> FALSE,
      ms_match |-> NoNumber, suggested_ms |-> NoNumber, tokens_or_400 |-> TRUE],
   BadRequest429 |->
     [status |-> 400, rate_limit_or_429 |-> TRUE, try_again_in |-> FALSE,
      ms_match |-> NoNumber, suggested_ms |-> NoNumber, tokens_or_400 |-> TRUE],
   Timeout |->
     [status |-> 0, rate_limit_or_429 |-> FALSE, try_again_in |-> FALSE,
      ms_match |-> NoNumber, suggested_ms |-> NoNumber, tokens_or_400 |-> FALSE]]

Ok == "Ok"

\* what one embeddings.create can answer
Outcomes == {Ok} \cup DOMAIN ProviderErrors

\* "rate_limit" in error_msg.lower() or "429" in error_msg
IsRateLimitMessage(o) == ProviderErrors[o].rate_limit_or_429

\* wait_time before the exponential factor, in milliseconds
ParsedWaitMs(o) ==
  IF ProviderErrors[o].try_again_in /\ ProviderErrors[o].ms_match # NoNumber
  THEN ProviderErrors[o].ms_match
  ELSE DefaultWaitMs

\* wait_time * (2 ** retry_count)
Backoff(o, n) == ParsedWaitMs(o) * 2^n

\* response.data[0].embedding
Vector(t) == [embedding |-> Embedding(t)]

\* one run of the body of generate_embedding(text, retry_count): the call of
\* embeddings.create and the return or the recursive call that follows it
EmbeddingsCreate ==
  /\ emb_pc = "call"
  /\ \E o \in Outcomes :
        /\ attempts' = Append(attempts, o)
        /\ IF o = Ok
           THEN /\ emb_result' = Vector(emb_text)
                /\ emb_pc' = "done"
                /\ UNCHANGED <<retry_count, waits>>
           ELSE IF IsRateLimitMessage(o) /\ retry_count < OPENAI_MAX_RETRIES
           THEN /\ waits' = Append(waits, Backoff(o, retry_count))
                /\ retry_count' = retry_count + 1
                /\ UNCHANGED <<emb_result, emb_pc>>
           ELSE /\ emb_result' = Absent
                /\ emb_pc' = "done"
                /\ UNCHANGED <<retry_count, waits>>
  /\ UNCHANGED <<emb_text, outsideEmb>>

\* no generate_embedding call in progress
EmbIdle ==
  /\ emb_text = "T1"
  /\ retry_count = 0
  /\ attempts = <<>>
  /\ waits = <<>>
  /\ emb_result = Absent
  /\ emb_pc = "idle"

\* settings.OPENAI_BATCH_SIZE, the batch_size of a call that names none
OPENAI_BATCH_SIZE == 2048

\* the retry_count up to which a pass is retried with a smaller batch
MaxBatchRetries == 5

\* the least batch_size of a retry
MinRetryBatch == 10

NoError == "NoError"

BatchTexts == UNION {[1..n -> DocTexts] : n \in 0..MaxTexts}

BatchSizes == (1..MaxSmallBatch) \cup {LargeBatch, OPENAI_BATCH_SIZE}

\* any(keyword in error_msg.lower() for keyword in ["too many", "too_many",
\* "max_tokens", "tokens", "400"])
IsTooLargeMessage(o) == ProviderErrors[o].tokens_or_400

\* new_batch_size = max(batch_size // 2, 10)
NewBatchSize(bsize) == Max2(bsize \div 2, MinRetryBatch)

\* [None] * len(texts)
AllAbsent(ts) == [i \in 1..Len(ts) |-> Absent]

\* the value all_embeddings starts a pass with, prev being what the pass
\* before had collected
KeptEmbeddings(prev) == prev

FreshEmbeddings(prev) == <<>>

\* the indices of texts[i:i + batch_size], counted from 1
BatchIndices(ts, i, bsize) == (i + 1)..Min2(i + bsize, Len(ts))

\* [item.embedding for item in response.data]: one item for each input, in
\* the order of the input
BatchEmbeddings(ts, i, bsize) ==
  [k \in 1..Cardinality(BatchIndices(ts, i, bsize)) |-> Vector(ts[i + k])]

\* the entry of generate_embeddings_batch(texts, batch_size, retry_count), up
\* to the first loop iteration
BatchEntry ==
  /\ batch_pc = "call"
  /\ IF batch_texts = <<>>
     THEN /\ batch_result' = <<>>
          /\ batch_pc' = "done"
          /\ UNCHANGED <<passes, all_embeddings, batch_i, current_retry, succeeded,
                         batch_error>>
     ELSE /\ all_embeddings' = FreshEmbeddings(all_embeddings)
          /\ passes' = Append(passes, batch_size)
          /\ batch_i' = 0
          /\ current_retry' = 0
          /\ succeeded' = {}
          /\ batch_error' = NoError
          /\ batch_pc' = "loop"
          /\ UNCHANGED batch_result
  /\ UNCHANGED <<batch_texts, batch_size, batch_retry, outsideBatch>>

\* one embeddings.create of the while loop and what follows it: the next
\* batch, the sleep before a retry, or the outer except branch with its
\* recursive call or its return
BatchCreate ==
  /\ batch_pc = "loop"
  /\ batch_i < Len(batch_texts)
  /\ \E o \in Outcomes :
        IF o = Ok
        THEN /\ all_embeddings' =
                   all_embeddings \o BatchEmbeddings(batch_texts, batch_i, batch_size)
             /\ succeeded' =
                   succeeded \cup BatchIndices(batch_texts, batch_i, batch_size)
             /\ batch_i' = batch_i + batch_size
             /\ current_retry' = 0
             /\ UNCHANGED <<batch_size, batch_retry, batch_error, batch_result, batch_pc>>
        ELSE IF IsRateLimitMessage(o) /\ current_retry < OPENAI_MAX_RETRIES
        THEN /\ current_retry' = current_retry + 1
             /\ UNCHANGED <<batch_size, batch_retry, batch_i, all_embeddings, succeeded,
                            batch_error, batch_result, batch_pc>>
        ELSE IF IsTooLargeMessage(o) /\ batch_retry < MaxBatchRetries
        THEN /\ batch_error' = o
             /\ batch_size' = NewBatchSize(batch_size)
             /\ batch_retry' = batch_retry + 1
             /\ batch_pc' = "call"
             /\ UNCHANGED <<batch_i, current_retry, all_embeddings, succeeded,
                            batch_result>>
        ELSE /\ batch_error' = o
             /\ batch_result' = AllAbsent(batch_texts)
             /\ batch_pc' = "done"
             /\ UNCHANGED <<batch_size, batch_retry, batch_i, current_retry,
                            all_embeddings, succeeded>>
  /\ UNCHANGED <<batch_texts, passes, outsideBatch>>

\* return all_embeddings
BatchReturn ==
  /\ batch_pc = "loop"
  /\ batch_i >= Len(batch_texts)
  /\ batch_result' = all_embeddings
  /\ batch_pc' = "done"
  /\ UNCHANGED <<batch_texts, batch_size, batch_retry, passes, batch_i, current_retry,
                 all_embeddings, succeeded, batch_error, outsideBatch>>

\* no generate_embeddings_batch call in progress
BatchIdle ==
  /\ batch_texts = <<>>
  /\ batch_size = 1
  /\ batch_retry = 0
  /\ passes = <<>>
  /\ batch_i = 0
  /\ current_retry = 0
  /\ all_embeddings = <<>>
  /\ succeeded = {}
  /\ batch_error = NoError
  /\ batch_result = <<>>
  /\ batch_pc = "idle"

\* ------------------------------------------------------ the ingestion routes
\* settings.OPENAI_EMBEDDING_MODEL, the value of embedding_service.model_name
OPENAI_EMBEDDING_MODEL == "text-embedding-3-small"

\* a document field the insert never set
Missing == "missing"

Titles == {"A", "B"}

ArticleLists == UNION {[1..n -> Titles] : n \in 0..MaxArticles}

\* what one pass of the loop over result["chunks"] does with a chunk: skip it
\* as a duplicate, insert it with or without an embedding, or raise (in
\* find_similar_chunk, generate_embedding's caller or insert_one)
ChunkSteps(dups, embeds) ==
  {"inserted", "raised"} \cup (IF dups THEN {"duplicate"} ELSE {})
                         \cup (IF embeds THEN {"embedded"} ELSE {})

\* the chunks of an article and what happens to each
ChunkPlans(dups, embeds) ==
  UNION {[1..n -> ChunkSteps(dups, embeds)] : n \in 0..MaxChunks}

\* the steps the loop over the chunks reaches: all of them up to the first
\* that raises
RECURSIVE Reached(_)
Reached(plan) ==
  IF plan = <<>> THEN <<>>
  ELSE IF plan[1] = "raised" THEN <<"raised">>
  ELSE <<plan[1]>> \o Reached(Tail(plan))

\* chunk_doc as process_articles builds it: "embedding" is set when the
\* embedding came back, "embedding_model" never
ArticleChunkDoc(step, id, title, index) ==
  [id |-> id,
   pk |-> title,
   source |-> Missing,
   source_type |-> "article",
   text |-> [doc |-> title, part |-> index],
   chunk_index |-> index,
   embedding |-> IF step = "embedded" THEN "vector" ELSE Missing,
   embedding_model |-> Missing]

\* the _id the driver gives the next document of the collection
NextId(coll) ==
  IF coll = <<>> THEN 1
  ELSE 1 + (CHOOSE m \in {coll[k].id : k \in 1..Len(coll)} :
              \A k \in 1..Len(coll) : coll[k].id <= m)

\* the positions, in order, of the chunks the loop inserts
Stored(reached) ==
  SelectSeq([p \in 1..Len(reached) |-> p],
            LAMBDA p : reached[p] \in {"inserted", "embedded"})

\* the documents the loop over the chunks inserts
InsertedDocs(reached, first_id, title) ==
  LET stored == Stored(reached)
  IN [k \in 1..Len(stored) |->
        ArticleChunkDoc(reached[stored[k]], first_id + k - 1, title, stored[k] - 1)]

\* duplicates_skipped: the chunks the duplicate check skipped
DuplicatesSkipped(reached) == Len(SelectSeq(reached, LAMBDA st : st = "duplicate"))

\* the index of the article the loop takes after one whose body raised
StopAfterFailure(index, total) == total

AfterFailure(index, total) == index + 1

\* `if dry_run is None: dry_run = settings.DRY_RUN`
EffectiveDryRun(given, setting) ==
  IF given = "none" THEN setting ELSE given = "true"

\* the normal run stores chunks in every mode
StoresChunksAlways(dry) == TRUE

\* `if dry_run: ... continue`: the normal run, with its duplicate check and
\* its inserts, is reached only when dry_run is false
StoresChunks(dry) == ~dry

\* the call of process_articles, up to the loop
ProcessArticlesEntry ==
  /\ op = "idle"
  /\ articles' \in ArticleLists
  /\ generate_embeddings' \in BOOLEAN
  /\ check_duplicates' \in BOOLEAN
  /\ \E given \in {"none", "true", "false"}, setting \in BOOLEAN :
       dry_run' = EffectiveDryRun(given, setting)
  /\ article_index' = 0
  /\ fates' = <<>>
  /\ queries' = 0
  /\ results' = <<>>
  /\ failed_articles' = <<>>
  /\ total_chunks_created' = 0
  /\ response' = [success |-> FALSE]
  /\ op' = "process_articles"
  /\ UNCHANGED <<db_chunks, loadVars, pdfVars, outsideIngest>>

\* one pass of `for article in articles`: process_article reports no
\* success, or something before the chunk loop raises, or the dry run writes
\* its file, or the chunks are checked, embedded and inserted one by one
ProcessArticle ==
  /\ op = "process_articles"
  /\ article_index < Len(articles)
  /\ LET title == articles[article_index + 1]
         total == Len(articles)
     IN \/ /\ failed_articles' = Append(failed_articles, title)
           /\ fates' = Append(fates, "not_success")
           /\ article_index' = article_index + 1
           /\ UNCHANGED <<results, total_chunks_created, db_chunks, queries>>
        \/ /\ failed_articles' = Append(failed_articles, title)
           /\ fates' = Append(fates, "raised")
           /\ article_index' = AfterFailure(article_index, total)
           /\ UNCHANGED <<results, total_chunks_created, db_chunks, queries>>
        \/ /\ dry_run
           /\ \E n \in 0..MaxChunks :
                 /\ results' = Append(results, [title |-> title, chunks_created |-> n,
                                                duplicates_skipped |-> 0])
                 /\ total_chunks_created' = total_chunks_created + n
           /\ fates' = Append(fates, "ok")
           /\ article_index' = article_index + 1
           /\ UNCHANGED <<failed_articles, db_chunks, queries>>
        \/ /\ StoresChunks(dry_run)
           /\ \E plan \in ChunkPlans(check_duplicates, generate_embeddings) :
                 LET reached == Reached(plan)
                     docs == InsertedDocs(reached, NextId(db_chunks), title)
                     raised == reached # <<>> /\ reached[Len(reached)] = "raised"
                 IN /\ Len(db_chunks) + Len(docs) <= MaxStored
                    /\ db_chunks' = db_chunks \o docs
                    /\ queries' = queries + (IF check_duplicates THEN Len(reached) ELSE 0)
                    /\ IF raised
                       THEN /\ failed_articles' = Append(failed_articles, title)
                            /\ fates' = Append(fates, "raised")
                            /\ article_index' = AfterFailure(article_index, total)
                            /\ UNCHANGED <<results, total_chunks_created>>
                       ELSE /\ results' = Append(results,
                                              [title |-> title,
                                               chunks_created |-> Len(docs),
                                               duplicates_skipped |->
                                                 DuplicatesSkipped(reached)])
                            /\ total_chunks_created' = total_chunks_created + Len(docs)
                            /\ fates' = Append(fates, "ok")
                            /\ article_index' = article_index + 1
                            /\ UNCHANGED failed_articles
  /\ UNCHANGED <<op, articles, generate_embeddings, check_duplicates, dry_run, response,
                 loadVars, pdfVars, outsideIngest>>

\* return BatchArticleProcessResponse(...)
ProcessArticlesReturn ==
  /\ op = "process_articles"
  /\ article_index >= Len(articles)
  /\ response' = [success |-> TRUE,
                  total_articles |-> Len(articles),
                  successful |-> Len(results),
                  failed |-> Len(failed_articles),
                  total_chunks_created |-> total_chunks_created]
  /\ op' = "returned"
  /\ UNCHANGED <<db_chunks, articles, generate_embeddings, check_duplicates, dry_run,
                 article_index, fates, queries, results, failed_articles,
                 total_chunks_created, loadVars, pdfVars, outsideIngest>>

articleVars == <<articles, generate_embeddings, check_duplicates, dry_run, article_index,
                 fates, queries, results, failed_articles>>

\* settings.ARTICLES_JSON_FILE, the file startup_initialization loads
ARTICLES_JSON_FILE == "complete_scrapping.json"

\* chunk_doc as load_articles_from_json builds it in phase 1 and completes
\* it in phase 3; the file determines the titles ("pk") and the texts: "embedding" is set where generate_embeddings_batch gave a
\* vector, "embedding_model" never; insert_many gives every document its _id
\* before it sends them
LoadChunkDoc(embedded, id, index) ==
  [id |-> id,
   pk |-> ARTICLES_JSON_FILE,
   source |-> Missing,
   source_type |-> "article",
   text |-> [doc |-> ARTICLES_JSON_FILE, part |-> index],
   chunk_index |-> index,
   embedding |-> IF embedded THEN "vector" ELSE Missing,
   embedding_model |-> Missing]

\* the documents of coll, in order, whose position is in kept
RECURSIVE DocsAt(_, _, _)
DocsAt(coll, kept, k) ==
  IF k > Len(coll) THEN <<>>
  ELSE (IF k \in kept THEN <<coll[k]>> ELSE <<>>) \o DocsAt(coll, kept, k + 1)

\* the number of documents of the collection with this _id
StoredCopies(coll, id) == Cardinality({k \in 1..Len(coll) : coll[k].id = id})

\* the count the fallback loop keeps after insert_one and its bare except
FallbackCount(count, accepted) == IF accepted THEN count + 1 ELSE count

\* the articles of the JSON list and how many of them phase 1 processed
LoadStats ==
  UNION {{[total_articles |-> t, articles_processed |-> p, articles_failed |-> t - p] :
            p \in 0..t} : t \in 0..MaxArticles}

\* the vectors phase 2 returns: none in DRY_RUN mode, where all_embeddings = []
EmbeddedChoices(dry, n) == IF dry THEN {{}} ELSE SUBSET (1..n)

\* phases 1 to 4 of load_articles_from_json, up to the summary. In DRY_RUN
\* mode phase 4 writes one file per chunk. In normal mode with no chunk
\* phase 4 inserts nothing; otherwise
\* insert_many(all_chunks_data, ordered=False) inserts every document and
\* returns their ids, or it raises after it persisted some of the documents
\* the storage accepts. check_duplicates and similarity_threshold are not
\* read.
LoadArticlesBulk ==
  /\ op = "idle"
  /\ check_duplicates' \in BOOLEAN
  /\ dry_run' \in BOOLEAN
  /\ load_stats' \in LoadStats
  /\ \E n \in 0..MaxLoadChunks :
       \E embedded \in EmbeddedChoices(dry_run', n), refused \in SUBSET (1..n),
          persisted \in SUBSET (1..n) :
         LET first_id == NextId(db_chunks)
             built == [k \in 1..n |-> LoadChunkDoc(k \in embedded, first_id + k - 1, k - 1)]
         IN /\ load_stats'.total_articles = 0 => n = 0
            /\ all_chunks_data' = built
            /\ IF dry_run' \/ n = 0
               THEN /\ refused = {}
                    /\ persisted = {}
                    /\ rejected' = {}
                    /\ db_chunks' = db_chunks
                    /\ total_chunks_created' = IF dry_run' THEN n ELSE 0
                    /\ op' = "load_inserted"
               ELSE /\ persisted \subseteq (1..n) \ refused
                    /\ Len(db_chunks) + n <= MaxStored
                    /\ rejected' = refused
                    /\ db_chunks' = db_chunks \o DocsAt(built, persisted, 1)
                    /\ \/ /\ persisted = 1..n
                          /\ total_chunks_created' = n
                          /\ op' = "load_inserted"
                       \/ /\ total_chunks_created' = 0
                          /\ op' = "load_fallback"
  /\ fallback_index' = 0
  /\ response' = [success |-> FALSE]
  /\ UNCHANGED <<requests, articles, generate_embeddings, article_index, fates, queries,
                 results, failed_articles, pdfVars, outsideIngest>>

\* one pass of `for chunk in all_chunks_data` in the except branch:
\* insert_one raises for a document whose _id is already stored and for one
\* the storage does not accept, and the bare except passes
FallbackInsert ==
  /\ op = "load_fallback"
  /\ fallback_index < Len(all_chunks_data)
  /\ LET k == fallback_index + 1
         chunk == all_chunks_data[k]
         accepted == k \notin rejected /\ StoredCopies(db_chunks, chunk.id) = 0
     IN /\ db_chunks' = IF accepted THEN Append(db_chunks, chunk) ELSE db_chunks
        /\ total_chunks_created' = FallbackCount(total_chunks_created, accepted)
  /\ fallback_index' = fallback_index + 1
  /\ UNCHANGED <<op, response, all_chunks_data, rejected, load_stats, requests,
                 articleVars, pdfVars, outsideIngest>>

\* the summary prints a local that only the normal mode of phase 3 assigns
\* (chunks_with_embeddings) and divides by total_articles
SummaryRaises(dry, stats) == dry \/ stats.total_articles = 0

\* the final summary and the statistics record load_articles_from_json
\* returns
LoadArticlesReturn ==
  /\ \/ op = "load_inserted"
     \/ op = "load_fallback" /\ fallback_index >= Len(all_chunks_data)
  /\ IF SummaryRaises(dry_run, load_stats)
     THEN /\ op' = "raised"
          /\ response' = response
     ELSE /\ op' = "returned"
          /\ response' =
               [success |-> TRUE,
                total_articles |-> load_stats.total_articles,
                articles_processed |-> load_stats.articles_processed,
                articles_failed |-> load_stats.articles_failed,
                chunks_created |-> total_chunks_created,
                chunks_with_embeddings |->
                  Len(SelectSeq(all_chunks_data, LAMBDA c : c.embedding = "vector"))]
  /\ UNCHANGED <<db_chunks, total_chunks_created, loadVars, articleVars, pdfVars,
                 outsideIngest>>

\* the names of the uploaded files
Filenames == {"a.pdf", "b.pdf"}

\* chunk_doc as upload_pdf builds it: the file name is stored under "pk",
\* there is no "source" key; "embedding" and "embedding_model" start as None
\* and are set together
PdfChunkDoc(step, id, filename, index) ==
  [id |-> id,
   pk |-> filename,
   source |-> Missing,
   source_type |-> "pdf",
   text |-> [doc |-> filename, part |-> index],
   chunk_index |-> index,
   embedding |-> IF step = "embedded" THEN "vector" ELSE "None",
   embedding_model |-> IF step = "embedded" THEN OPENAI_EMBEDDING_MODEL ELSE "None"]

\* chunk_doc as upload_pdf_batch builds it: the file name is stored under
\* "source", there is no "pk" key
BatchChunkDoc(step, id, filename, index) ==
  [PdfChunkDoc(step, id, filename, index) EXCEPT !.pk = Missing, !.source = filename]

\* the documents the loop over the chunks of upload_pdf inserts
InsertedPdfDocs(reached, first_id, filename) ==
  LET stored == Stored(reached)
  IN [k \in 1..Len(stored) |->
        PdfChunkDoc(reached[stored[k]], first_id + k - 1, filename, stored[k] - 1)]

\* the documents the loop over the chunks of one file of upload_pdf_batch
\* inserts
InsertedFileDocs(reached, first_id, filename) ==
  LET stored == Stored(reached)
  IN [k \in 1..Len(stored) |->
        BatchChunkDoc(reached[stored[k]], first_id + k - 1, filename, stored[k] - 1)]

\* the documents the loop over the files inserts, file by file
RECURSIVE InsertedBatchDocs(_, _, _)
InsertedBatchDocs(plans, first_id, names) ==
  IF plans = <<>> THEN <<>>
  ELSE LET docs == InsertedFileDocs(Reached(plans[1]), first_id, names[1])
       IN docs \o InsertedBatchDocs(Tail(plans), first_id + Len(docs), Tail(names))

\* the locals of the operations that are not running
LocalsIdle ==
  /\ articles' = <<>>
  /\ generate_embeddings' = TRUE
  /\ check_duplicates' = TRUE
  /\ dry_run' = FALSE
  /\ article_index' = 0
  /\ fates' = <<>>
  /\ queries' = 0
  /\ results' = <<>>
  /\ failed_articles' = <<>>
  /\ total_chunks_created' = 0
  /\ response' = [success |-> FALSE]
  /\ all_chunks_data' = <<>>
  /\ rejected' = {}
  /\ fallback_index' = 0
  /\ load_stats' = [total_articles |-> 0, articles_processed |-> 0, articles_failed |-> 0]

\* upload_pdf: the chunks of the file are inserted one by one until the
\* last one or until something raises (HTTP 500)
UploadPdf ==
  /\ op = "idle"
  /\ \E embeds \in BOOLEAN, filename \in Filenames :
       \E plan \in ChunkPlans(FALSE, embeds) :
         LET reached == Reached(plan)
             docs == InsertedPdfDocs(reached, NextId(db_chunks), filename)
             raised == reached # <<>> /\ reached[Len(reached)] = "raised"
         IN /\ Len(db_chunks) + Len(docs) <= MaxStored
            /\ db_chunks' = db_chunks \o docs
            /\ IF raised
               THEN /\ op' = "raised"
                    /\ upload_response' = [success |-> FALSE]
               ELSE /\ op' = "returned"
                    /\ upload_response' =
                         [success |-> TRUE,
                          filename |-> filename,
                          chunk_ids |-> [k \in 1..Len(docs) |-> docs[k].id]]
  /\ UNCHANGED <<articleVars, total_chunks_created, response, loadVars, chunks_response,
                 outsideIngest>>

\* upload_pdf_batch: the same loop over the chunks for every file; a file
\* whose loop raises is listed in failed_files and the next file is taken
UploadPdfBatch ==
  /\ op = "idle"
  /\ \E embeds \in BOOLEAN, n \in 1..MaxFiles :
       \E plans \in [1..n -> ChunkPlans(FALSE, embeds)], names \in [1..n -> Filenames] :
         LET docs == InsertedBatchDocs(plans, NextId(db_chunks), names)
         IN /\ Len(db_chunks) + Len(docs) <= MaxStored
            /\ db_chunks' = db_chunks \o docs
  /\ op' = "returned"
  /\ UNCHANGED <<articleVars, total_chunks_created, response, loadVars, pdfVars, outsideIngest>>

\* the values a client can send in the embedding and embedding_model fields
\* of ChunkCreate and ChunkUpdate
ClientEmbeddings == {"None", "vector"}

ClientModels == {"None", OPENAI_EMBEDDING_MODEL, "other-model"}

\* create_chunk: the fields of the request are stored as sent; an embedding
\* is generated, and the model name set with it, only when the request has
\* none and generate_embedding is true
CreateChunk ==
  /\ op = "idle"
  /\ Len(db_chunks) < MaxStored
  /\ \E sent \in ClientEmbeddings, model \in ClientModels,
        generate_embedding \in BOOLEAN, generated \in BOOLEAN :
       LET fresh == generate_embedding /\ sent = "None" /\ generated
       IN db_chunks' = Append(db_chunks,
            [id |-> NextId(db_chunks),
             pk |-> Missing,
             source |-> "client",
             source_type |-> "document",
             text |-> [doc |-> "client", part |-> 0],
             chunk_index |-> 0,
             embedding |-> IF fresh THEN "vector" ELSE sent,
             embedding_model |-> IF fresh THEN OPENAI_EMBEDDING_MODEL ELSE model])
  /\ op' = "returned"
  /\ UNCHANGED <<articleVars, total_chunks_created, response, loadVars, pdfVars, outsideIngest>>

\* update_chunk: the fields of the request that are not None are $set; when
\* the text changes or regenerate_embedding is true and the chunk exists, a
\* generated embedding and the model name replace them
UpdateChunk ==
  /\ op = "idle"
  /\ \E k \in 1..Len(db_chunks), sent \in ClientEmbeddings, model \in ClientModels,
        regenerate \in BOOLEAN, generated \in BOOLEAN :
       LET fresh == regenerate /\ generated
           old == db_chunks[k]
       IN db_chunks' = [db_chunks EXCEPT ![k] =
            [old EXCEPT
               !.embedding = IF fresh THEN "vector"
                             ELSE IF sent # "None" THEN sent ELSE old.embedding,
               !.embedding_model = IF fresh THEN OPENAI_EMBEDDING_MODEL
                                   ELSE IF model # "None" THEN model
                                   ELSE old.embedding_model]]
  /\ op' = "returned"
  /\ UNCHANGED <<articleVars, total_chunks_created, response, loadVars, pdfVars, outsideIngest>>

\* the positions of the documents of coll, ordered by chunk_index and, for
\* equal chunk_index, by position
RECURSIVE ByChunkIndex(_, _)
ByChunkIndex(coll, left) ==
  IF left = {} THEN <<>>
  ELSE LET first == CHOOSE p \in left :
                      \A q \in left :
                        \/ coll[p].chunk_index < coll[q].chunk_index
                        \/ coll[p].chunk_index = coll[q].chunk_index /\ p <= q
       IN <<first>> \o ByChunkIndex(coll, left \ {first})

\* find({"source": source_filename, "source_type": "pdf"}).sort("chunk_index", 1)
FindBySource(coll, source_filename) ==
  LET hits == {p \in 1..Len(coll) :
                 coll[p].source = source_filename /\ coll[p].source_type = "pdf"}
      order == ByChunkIndex(coll, hits)
  IN [k \in 1..Len(order) |-> coll[order[k]]]

\* get_chunks_by_pdf: the chunks of the query, 404 when there is none
GetChunksByPdf ==
  /\ op = "idle"
  /\ \E source_filename \in Filenames :
       LET found == FindBySource(db_chunks, source_filename)
       IN IF found = <<>>
          THEN /\ op' = "raised"
               /\ chunks_response' = [source_filename |-> source_filename,
                                      status |-> 404, chunks |-> <<>>]
          ELSE /\ op' = "returned"
               /\ chunks_response' = [source_filename |-> source_filename,
                                      status |-> 200,
                                      chunks |-> [k \in 1..Len(found) |-> found[k].id]]
  /\ UNCHANGED <<db_chunks, articleVars, total_chunks_created, response, loadVars,
                 upload_response, outsideIngest>>

\* the application takes the next request once the operation has returned
\* or raised; what upload_pdf answered stays with its client
NextRequest ==
  /\ op \in {"returned", "raised"}
  /\ requests + 1 < MaxRequests
  /\ requests' = requests + 1
  /\ op' = "idle"
  /\ LocalsIdle
  /\ chunks_response' = [source_filename |-> "", status |-> 0, chunks |-> <<>>]
  /\ UNCHANGED <<db_chunks, upload_response, outsideIngest>>

\* no ingestion in progress, an empty collection
IngestIdle ==
  /\ op = "idle"
  /\ db_chunks = <<>>
  /\ articles = <<>>
  /\ generate_embeddings = TRUE
  /\ check_duplicates = TRUE
  /\ dry_run = FALSE
  /\ article_index = 0
  /\ fates = <<>>
  /\ queries = 0
  /\ results = <<>>
  /\ failed_articles = <<>>
  /\ total_chunks_created = 0
  /\ response = [success |-> FALSE]
  /\ all_chunks_data = <<>>
  /\ rejected = {}
  /\ fallback_index = 0
  /\ load_stats = [total_articles |-> 0, articles_processed |-> 0, articles_failed |-> 0]
  /\ upload_response = [success |-> FALSE]
  /\ chunks_response = [source_filename |-> "", status |-> 0, chunks |-> <<>>]
  /\ requests = 0

\* nothing in progress outside each service
\* the calls of process_articles that run concurrently
Handlers == 1..MaxHandlers

\* similarity_threshold (in 1/100), chunk_size and chunk_overlap arguments
\* of the endpoint: its defaults, and the defaults of ArticleProcessor with
\* a lower threshold
HandlerArguments ==
  {[similarity_threshold |-> 95,
    settings |-> [chunk_size |-> 1500, chunk_overlap |-> 400]],
   [similarity_threshold |-> 90,
    settings |-> [chunk_size |-> 1000, chunk_overlap |-> 200]]}

\* the title of the articles of each concurrent call
HandlerTitle(r) == IF r = 1 THEN "A" ELSE "B"

\* a call of process_articles that has not started
IdleHandler ==
  [pc |-> "idle",
   title |-> "A",
   similarity_threshold |-> 95,
   settings |-> [chunk_size |-> 1000, chunk_overlap |-> 200],
   check_duplicates |-> TRUE,
   articles_left |-> 0,
   chunks_left |-> 0,
   chunk_index |-> 0,
   used_thresholds |-> {},
   used_settings |-> {}]

\* article_processor = ArticleProcessor() and no call of process_articles
ConcIdle ==
  /\ article_processor = [chunk_size |-> 1000, chunk_overlap |-> 200]
  /\ handlers = [r \in Handlers |-> IdleHandler]

IdleOutsideChunk == DupIdle /\ TagIdle /\ SimIdle /\ EmbIdle /\ BatchIdle /\ IngestIdle /\ ConcIdle
IdleOutsideDup == ChunkIdle /\ TagIdle /\ SimIdle /\ EmbIdle /\ BatchIdle /\ IngestIdle /\ ConcIdle
IdleOutsideTags == ChunkIdle /\ DupIdle /\ SimIdle /\ EmbIdle /\ BatchIdle /\ IngestIdle /\ ConcIdle
IdleOutsideSim == ChunkIdle /\ DupIdle /\ TagIdle /\ EmbIdle /\ BatchIdle /\ IngestIdle /\ ConcIdle
IdleOutsideEmb == ChunkIdle /\ DupIdle /\ TagIdle /\ SimIdle /\ BatchIdle /\ IngestIdle /\ ConcIdle
IdleOutsideBatch == ChunkIdle /\ DupIdle /\ TagIdle /\ SimIdle /\ EmbIdle /\ IngestIdle /\ ConcIdle
IdleOutsideIngest == ChunkIdle /\ DupIdle /\ TagIdle /\ SimIdle /\ EmbIdle /\ BatchIdle /\ ConcIdle

InitCall ==
  /\ IdleOutsideChunk
  /\ text \in Texts
  /\ size \in 1..MaxSize
  /\ overlap \in 0..MaxOverlap
  /\ pc = "call"
  /\ start = 0
  /\ previous_end = 0
  /\ chunk_index = 0
  /\ chunks = <<>>
  /\ sentences = <<>>
  /\ current_chunk = <<>>

InitChunk == service = "chunking" /\ InitCall

NextChunk == ShortReturn \/ LoopEntry \/ LoopIteration \/ UpdateTotalChunks

\* ChunkingService.create_chunks on every input
SpecChunk == InitChunk /\ [][NextChunk]_vars

InitCreateChunks == service \in {"chunking", "pdf"} /\ InitCall

NextCreateChunks == NextChunk \/ PdfEntry \/ PdfSentence \/ PdfFinish

\* both create_chunks, ChunkingService's and PDFProcessor's
SpecCreateChunks == InitCreateChunks /\ [][NextCreateChunks]_vars

InitDup == DupIdle /\ IdleOutsideDup

NextDup == InsertOne \/ InsertMany \/ SetThreshold \/ FindSimilarChunk \/ FindReturn

\* the chunks collection and the duplicate detector
SpecDup == InitDup /\ [][NextDup]_vars

InitTags ==
  /\ IdleOutsideTags
  /\ tag_text \in TagTexts
  /\ max_tags \in 1..MaxTags
  /\ include_domain \in BOOLEAN
  /\ include_entities \in BOOLEAN
  /\ tags = <<>>
  /\ tag_pc = "call"
  /\ category = ""

NextTags == GenerateTags

\* TagGenerator.generate_tags on every input
SpecTags == InitTags /\ [][NextTags]_vars

InitCategory ==
  /\ IdleOutsideTags
  /\ tag_text \in CategoryTexts
  /\ max_tags = MaxTags
  /\ include_domain = TRUE
  /\ include_entities = TRUE
  /\ \/ tag_pc = "call" /\ tags = <<>>
     \/ tag_pc = "given" /\ \E given \in SUBSET GivenTags : tags = SortTags(given)
  /\ category = ""

NextCategory == GenerateTags \/ GenerateCategory

\* TagGenerator.generate_category on every text, with the tags generate_tags
\* returned for it or with a given list of tags
SpecCategory == InitCategory /\ [][NextCategory]_vars

InitSim ==
  /\ IdleOutsideSim
  /\ sim_service \in {"duplicate", "vector_search"}
  /\ vec1 \in Vectors
  /\ vec2 \in Vectors
  /\ similarity = FloatZero
  /\ sim_pc = "call"

NextSim == ComputeSimilarity

\* both cosine_similarity functions on every pair of vectors
SpecSim == InitSim /\ [][NextSim]_vars

InitEmb ==
  /\ IdleOutsideEmb
  /\ emb_text \in DocTexts
  /\ retry_count = 0
  /\ attempts = <<>>
  /\ waits = <<>>
  /\ emb_result = Absent
  /\ emb_pc = "call"

NextEmb == EmbeddingsCreate

\* EmbeddingService.generate_embedding against every provider behaviour
SpecEmb == InitEmb /\ [][NextEmb]_vars

InitBatch ==
  /\ IdleOutsideBatch
  /\ batch_texts \in BatchTexts
  /\ batch_size \in BatchSizes
  /\ batch_retry = 0
  /\ passes = <<>>
  /\ batch_i = 0
  /\ current_retry = 0
  /\ all_embeddings = <<>>
  /\ succeeded = {}
  /\ batch_error = NoError
  /\ batch_result = <<>>
  /\ batch_pc = "call"

NextBatch == BatchEntry \/ BatchCreate \/ BatchReturn

\* EmbeddingService.generate_embeddings_batch against every provider behaviour
SpecBatch == InitBatch /\ [][NextBatch]_vars

InitArticles == IngestIdle /\ IdleOutsideIngest

NextArticles == ProcessArticlesEntry \/ ProcessArticle \/ ProcessArticlesReturn

\* one request to process_articles on an empty collection
SpecArticles == InitArticles /\ [][NextArticles]_vars

NextLoad == LoadArticlesBulk \/ FallbackInsert \/ LoadArticlesReturn

\* one call of load_articles_from_json on an empty collection
SpecLoad == InitArticles /\ [][NextLoad]_vars

NextReload == NextLoad \/ NextRequest

\* load_articles_from_json called again and again, as every start of the
\* application does
SpecReload == InitArticles /\ [][NextReload]_vars

NextPdf == UploadPdf \/ UploadPdfBatch \/ GetChunksByPdf \/ NextRequest

\* uploads of PDF files and queries for the chunks of a file
SpecPdf == InitArticles /\ [][NextPdf]_vars

outsideConc == <<chunkVars, store, call, tagVars, simVars, embVars, batchVars, articleVars,
                 total_chunks_created, response, loadVars, pdfVars, op>>

\* the await a chunk of the normal run stops at first: the cursor of
\* find_similar_chunk when duplicates are checked and the embedding of the
\* text came back, insert_one otherwise
AwaitOfChunk(h, embedded) == IF h.check_duplicates /\ embedded THEN "find" ELSE "insert"

\* article_processor.process_article(article.dict()) chunks with the
\* chunk_size and chunk_overlap the shared processor holds at that moment,
\* and the loop runs on to the first await of the first chunk
StartArticle(h, processor, total_chunks, embedded) ==
  [h EXCEPT !.chunks_left = total_chunks,
            !.chunk_index = 0,
            !.used_settings = @ \cup {processor},
            !.pc = AwaitOfChunk(h, embedded)]

\* after a chunk was skipped or inserted: the next chunk of the article,
\* the next article, or the return of the response
AfterChunk(h, processor, total_chunks, embedded) ==
  IF h.chunks_left > 1
  THEN [h EXCEPT !.chunks_left = @ - 1,
                 !.chunk_index = @ + 1,
                 !.pc = AwaitOfChunk(h, embedded)]
  ELSE IF h.articles_left > 1
  THEN StartArticle([h EXCEPT !.articles_left = @ - 1], processor, total_chunks, embedded)
  ELSE [h EXCEPT !.articles_left = 0, !.chunks_left = 0, !.pc = "done"]

\* a call of process_articles (not a dry run) from its first line to its
\* first await: it writes its similarity_threshold into the shared
\* duplicate_detector and its chunk_size and chunk_overlap into the shared
\* article_processor, and processes its first article
HandlerEntry(r) ==
  /\ handlers[r].pc = "idle"
  /\ \E given \in HandlerArguments, dups \in BOOLEAN, n \in 1..MaxArticles,
        total_chunks \in 1..MaxChunks, embedded \in BOOLEAN :
       /\ similarity_threshold' = given.similarity_threshold
       /\ article_processor' = given.settings
       /\ handlers' =
            [handlers EXCEPT ![r] =
               StartArticle([IdleHandler EXCEPT
                               !.title = HandlerTitle(r),
                               !.similarity_threshold = given.similarity_threshold,
                               !.settings = given.settings,
                               !.check_duplicates = dups,
                               !.articles_left = n],
                            given.settings, total_chunks, embedded)]
  /\ UNCHANGED <<db_chunks, outsideConc>>

\* find_similar_chunk resumes with its candidates: when there are any, it
\* compares each similarity with the similarity_threshold the shared
\* detector holds now; a duplicate is skipped, another chunk goes on to
\* insert_one
FindResumes(r) ==
  /\ handlers[r].pc = "find"
  /\ \E compared \in BOOLEAN, duplicate \in BOOLEAN, total_chunks \in 1..MaxChunks,
        embedded \in BOOLEAN :
       LET h == handlers[r]
           seen == [h EXCEPT !.used_thresholds =
                               IF compared THEN @ \cup {similarity_threshold} ELSE @]
       IN /\ duplicate => compared
          /\ handlers' =
               [handlers EXCEPT ![r] =
                  IF duplicate
                  THEN AfterChunk(seen, article_processor, total_chunks, embedded)
                  ELSE [seen EXCEPT !.pc = "insert"]]
  /\ UNCHANGED <<db_chunks, similarity_threshold, article_processor, outsideConc>>

\* insert_one resumes: the chunk is stored and the loop goes on
InsertResumes(r) ==
  /\ handlers[r].pc = "insert"
  /\ Len(db_chunks) < MaxStored
  /\ \E total_chunks \in 1..MaxChunks, embedded \in BOOLEAN :
       LET h == handlers[r]
       IN /\ db_chunks' = Append(db_chunks,
                                 ArticleChunkDoc("inserted", NextId(db_chunks), h.title,
                                                 h.chunk_index))
          /\ handlers' =
               [handlers EXCEPT ![r] =
                  AfterChunk(h, article_processor, total_chunks, embedded)]
  /\ UNCHANGED <<similarity_threshold, article_processor, outsideConc>>

\* no operation in progress, an empty collection, no concurrent call
InitConcurrent ==
  /\ IngestIdle
  /\ IdleOutsideIngest

NextConcurrent ==
  \E r \in Handlers : HandlerEntry(r) \/ FindResumes(r) \/ InsertResumes(r)

\* calls of process_articles interleaved at their awaits by the event loop
SpecConcurrent == InitConcurrent /\ [][NextConcurrent]_vars

NextIngest ==
  \/ NextArticles
  \/ NextLoad
  \/ UploadPdf
  \/ UploadPdfBatch
  \/ CreateChunk
  \/ UpdateChunk
  \/ NextRequest

\* MaxRequests ingestion operations, one after the other, on a collection
\* that starts empty
SpecIngest == InitArticles /\ [][NextIngest]_vars

\* ------------------------------------------------------------ the claims
CeilDiv(a, b) == (a + b - 1) \div b

ChunkingDone == service = "chunking" /\ pc = "done"

\* the call went through the loop (the text is not empty and not short)
ChunkingLooped == ChunkingDone /\ ~IsShort(text, size)

\* C1: for len(text) >= chunk_size >= 1 and 0 <= chunk_overlap < chunk_size
\* the returned chunks cover the text with no gaps: the first chunk starts
\* at 0, the last ends at len(text), and every next chunk starts at or before
\* the end of the previous one.
C1_NoGaps ==
  (ChunkingDone /\ Len(text) >= size /\ overlap < size) =>
     /\ chunks[1].start_pos = 0
     /\ chunks[Len(chunks)].end_pos = Len(text)
     /\ \A k \in 1..(Len(chunks) - 1) : chunks[k + 1].start_pos <= chunks[k].end_pos

\* C2: the chunk-producing loop of ChunkingService.create_chunks terminates
\* for every text, every chunk_size >= 1 and every chunk_overlap >= 0, also
\* when chunk_overlap >= chunk_size: whenever the loop condition holds, fewer
\* than len(text) iterations have run, so the loop is left after at most
\* len(text) iterations.
C2_LoopTerminates ==
  (service = "chunking" /\ pc = "loop" /\ start < Len(text)) => chunk_index < Len(text)

C2_Witness == ChunkingDone /\ overlap >= size /\ Len(chunks) >= 3

\* C3 as stated: with 0 <= chunk_overlap < chunk_size the loop runs at most
\* ceil(len(text) / (chunk_size - chunk_overlap)) + 1 iterations.
C3_IterationBound ==
  (ChunkingLooped /\ overlap < size) =>
     Len(chunks) <= CeilDiv(Len(text), size - overlap) + 1

\* no chunk of the result was cut at a sentence terminator
NoChunkSnapped ==
  \A k \in 1..Len(chunks) :
     chunks[k].end_pos = WindowEnd(text, chunks[k].start_pos, size)

\* C3 amended: with 0 <= chunk_overlap < chunk_size the loop runs at most
\* len(text) iterations, and at most
\* ceil(len(text) / (chunk_size - chunk_overlap)) + 1 iterations when no chunk
\* is cut short at a sentence terminator.
C3_IterationBoundAmended ==
  (ChunkingLooped /\ overlap < size) =>
     /\ Len(chunks) <= Len(text)
     /\ NoChunkSnapped => Len(chunks) <= CeilDiv(Len(text), size - overlap) + 1

C3_Witness ==
  /\ ChunkingLooped /\ overlap < size
  /\ Len(chunks) > CeilDiv(Len(text), size - overlap) + 1

\* C4: for len(text) < chunk_size (the empty text included) create_chunks
\* returns exactly one chunk whose text is the whole input, with
\* chunk_index = 0 and total_chunks = 1.
C4_ShortTextOneChunk ==
  (ChunkingDone /\ Len(text) < size) =>
     /\ Len(chunks) = 1
     /\ chunks[1].text = text
     /\ chunks[1].chunk_index = 0
     /\ chunks[1].total_chunks = 1

C4_Witness ==
  /\ ChunkingDone /\ Len(text) < size
  /\ Len(text) >= 2 /\ text[1] = " " /\ Len(chunks) = 1

\* C5: the n chunks returned by create_chunks (ChunkingService and
\* PDFProcessor) have chunk_index 0, 1, ..., n-1 in order and every one
\* carries total_chunks = n.
C5_IndicesAndTotal ==
  pc = "done" =>
     \A i \in 1..Len(chunks) :
        chunks[i].chunk_index = i - 1 /\ chunks[i].total_chunks = Len(chunks)

C5_Witness == ChunkingLooped /\ Len(chunks) >= 3

\* C6: for consecutive chunks k, k+1 of ChunkingService.create_chunks,
\* start_pos(k+1) >= end_pos(k) - chunk_overlap: consecutive chunks share at
\* most chunk_overlap characters.
C6_OverlapAtMost ==
  ChunkingLooped =>
     \A k \in 1..(Len(chunks) - 1) :
        chunks[k + 1].start_pos >= chunks[k].end_pos - overlap

\* a snapped chunk followed by a chunk that starts exactly chunk_overlap
\* characters before its end
C6_Witness ==
  /\ ChunkingLooped /\ overlap >= 1
  /\ \E k \in 1..(Len(chunks) - 1) :
        /\ chunks[k].end_pos < WindowEnd(text, chunks[k].start_pos, size)
        /\ chunks[k + 1].start_pos = chunks[k].end_pos - overlap

\* a find_similar_chunk call has just returned
Found == call.op = "find"

\* C7 as stated: whenever the collection holds a chunk with text T (of a
\* source_type matching the filter), find_similar_chunk(T) with a threshold
\* <= 1.0, under a provider that returns the same non-zero vector for the
\* same text, returns a match with similarity at or above the threshold.
C7_StoredTextIsFound ==
  (/\ Found
   /\ call.failed = {}
   /\ similarity_threshold <= SimScale
   /\ Norm(Embedding(call.text)) # 0
   /\ \E b \in 1..Len(store) :
         store[b].text = call.text /\ Matches(store[b], call.source_type))
  => (call.result # Absent /\ call.result.similarity >= similarity_threshold)

\* the similarity of the new text of the call to the stored document id
SimilarityTo(docs, id) == TextSimilarity[call.text, docs[id].text]

\* the positions, in the order of the scan, of the compared candidates whose
\* embedding was generated and whose similarity reaches the threshold
Eligible(docs) ==
  {i \in 1..Len(call.compared) :
     /\ i \notin call.failed
     /\ SimilarityTo(docs, call.compared[i]) >= similarity_threshold}

\* C8: find_similar_chunk returns the candidate with the highest raw cosine
\* similarity among the fetched candidates whose embedding could be generated
\* and whose similarity is >= similarity_threshold; a candidate whose
\* embedding fails is skipped and the scan goes on; when no candidate reaches
\* the threshold (always so for 1.01) the result is absent.
C8_HighestAboveThreshold ==
  Found =>
     LET docs     == Docs(store)
         eligible == Eligible(docs)
     IN /\ (eligible = {}) <=> (call.result = Absent)
        /\ call.result # Absent =>
             \E i \in eligible :
                /\ call.result.chunk_id = call.compared[i]
                /\ call.result.similarity = SimilarityTo(docs, call.compared[i])
                /\ \A j \in eligible :
                      SimilarityTo(docs, call.compared[j]) <= call.result.similarity
        /\ similarity_threshold > SimScale => call.result = Absent

\* the most recent candidate failed, a later one is returned, and an
\* eligible candidate of lower similarity was passed over
C8_Witness ==
  /\ Found /\ 1 \in call.failed /\ call.result # Absent
  /\ LET docs == Docs(store)
     IN \E j \in Eligible(docs) :
           SimilarityTo(docs, call.compared[j]) < call.result.similarity

C10_TagsBoundedUniqueSorted ==
  tag_pc = "done" =>
    /\ max_tags >= 1
    /\ Len(tags) <= max_tags
    /\ \A i, j \in 1..Len(tags) : i # j => tags[i] # tags[j]
    /\ \A i \in 1..(Len(tags) - 1) : ~TagLess(tags[i + 1], tags[i])

\* a call with both options on whose extractors agree on a tag, find more
\* than max_tags tags between them and return a list of two or more
C10_Witness ==
  /\ tag_pc = "done"
  /\ include_domain /\ include_entities
  /\ Range(ExtractNamedEntities(tag_text)) \cap
       Range(ExtractKeywordsFrequency(tag_text, 10)) # {}
  /\ Cardinality(AllTags(tag_text, TRUE, TRUE)) > max_tags
  /\ Len(tags) = max_tags
  /\ Len(tags) >= 2
  /\ \E i \in 1..Len(tags) : Len(tags[i]) = 2

\* the categories in the order the claim gives them
CategoryOrder == <<"space", "nasa", "astronomy", "planets", "mission",
                   "technology", "science", "rocket", "galaxy", "physics">>

InTags(c) == \E i \in 1..Len(tags) : tags[i] = <<c>>

InText(w) == \E i \in 1..Len(tag_text) : tag_text[i] = w

\* C11: generate_category returns the first category, in the order space,
\* nasa, astronomy, planets, mission, technology, science, rocket, galaxy,
\* physics, that is an element of tags; when none is, "science", else
\* "mission", else "technology" by the content checks in that priority,
\* else "general"; the result is never empty, and an empty text with no
\* domain tag yields "general".
C11_CategoryByTagsThenContent ==
  tag_pc = "categorized" =>
    /\ category # ""
    /\ \A i \in 1..Len(CategoryOrder) :
          (InTags(CategoryOrder[i]) /\ \A j \in 1..(i - 1) : ~InTags(CategoryOrder[j]))
            => category = CategoryOrder[i]
    /\ (\A i \in 1..Len(CategoryOrder) : ~InTags(CategoryOrder[i])) =>
          category = IF InText("study") THEN "science"
                     ELSE IF InText("launch") THEN "mission"
                     ELSE IF InText("system") THEN "technology"
                     ELSE "general"
    /\ (tag_text = <<>> /\ \A i \in 1..Len(CategoryOrder) : ~InTags(CategoryOrder[i]))
          => category = "general"

\* a call whose tags name no category and whose text holds words of the
\* science and of the mission check: the result is "science"
C11_Witness ==
  /\ tag_pc = "categorized"
  /\ tags # <<>>
  /\ \A i \in 1..Len(CategoryOrder) : ~InTags(CategoryOrder[i])
  /\ InText("study") /\ InText("launch")
  /\ tag_text[1] = "launch"
  /\ category = "science"

ZeroVector == [i \in 1..VecDim |-> 0]

\* C12: for both similarity functions the similarity of any non-zero vector
\* with itself is 1.0, and the similarity of any vector with the zero vector
\* is 0.0.
C12_SelfOneZeroZero ==
  sim_pc = "done" =>
    /\ (vec1 = vec2 /\ vec1 # ZeroVector) => similarity = FloatOne
    /\ (vec1 = ZeroVector \/ vec2 = ZeroVector) => similarity = FloatZero

\* C13: generate_embedding never raises: it returns a vector or absent, and
\* a provider failure that is not a rate-limit error yields absent at once,
\* with no further provider call.
C13_AbsentAtOnceOnOtherFailure ==
  /\ emb_pc = "done" => emb_result \in {Vector(emb_text), Absent}
  /\ \A i \in 1..Len(attempts) :
        (attempts[i] # Ok /\ ProviderErrors[attempts[i]].status # 429) =>
          /\ i = Len(attempts)
          /\ emb_pc = "done"
          /\ emb_result = Absent

\* the wait the provider asks for in an answer, 1 second when it asks for none
SuggestedOrDefault(o) ==
  IF ProviderErrors[o].suggested_ms # NoNumber THEN ProviderErrors[o].suggested_ms
  ELSE DefaultWaitMs

\* C14: when the provider keeps answering with rate-limit errors, one
\* generate_embedding call makes at most OPENAI_MAX_RETRIES retries
\* (OPENAI_MAX_RETRIES + 1 provider calls), waits before retry number n for
\* base * 2^n, base being the wait the provider suggests or 1 second, and
\* returns absent once the retries are exhausted; a success on any attempt
\* returns that attempt's vector.
C14_BoundedRetriesWithBackoff ==
  (\A i \in 1..Len(attempts) :
      attempts[i] = Ok \/ ProviderErrors[attempts[i]].status = 429) =>
    /\ Len(attempts) <= OPENAI_MAX_RETRIES + 1
    /\ Len(waits) <= OPENAI_MAX_RETRIES
    /\ \A n \in 1..Len(waits) :
          waits[n] = SuggestedOrDefault(attempts[n]) * 2^(n - 1)
    /\ (Len(attempts) = OPENAI_MAX_RETRIES + 1 /\ attempts[Len(attempts)] # Ok) =>
          emb_pc = "done" /\ emb_result = Absent
    /\ (attempts # <<>> /\ attempts[Len(attempts)] = Ok) =>
          emb_pc = "done" /\ emb_result = Vector(emb_text)

\* C15: for every list of texts and every batch_size >= 1 the list
\* generate_embeddings_batch returns has exactly len(texts) entries, entry i
\* being the embedding of texts[i] or absent, also after batch-size-reducing
\* retries: no entry of an aborted pass is kept or repeated.
C15_OneEntryPerTextInOrder ==
  batch_pc = "done" =>
    /\ Len(batch_result) = Len(batch_texts)
    /\ \A i \in 1..Len(batch_result) :
          batch_result[i] \in {Vector(batch_texts[i]), Absent}

\* a call on different texts that returns all vectors in a second pass,
\* after a first pass of several batches was aborted
C15_Witness ==
  /\ batch_pc = "done"
  /\ Len(passes) >= 2
  /\ passes[1] < Len(batch_texts)
  /\ Len(batch_texts) = MaxTexts
  /\ batch_texts[1] # batch_texts[2]
  /\ \A i \in 1..Len(batch_result) : batch_result[i] = Vector(batch_texts[i])

\* C16: an entry of the result is absent only for the items whose own
\* provider call failed: when the call of one batch fails after its retries,
\* the entries of the batches whose call succeeded are still vectors.
C16_AbsentOnlyWhereCallFailed ==
  batch_pc = "done" =>
    \A i \in 1..Len(batch_result) :
       i \in succeeded => batch_result[i] = Vector(batch_texts[i])

\* C17: on a batch-too-large error the whole list is retried with half the
\* batch_size of the failed pass (integer division), for every starting
\* batch_size >= 1; after at most 5 such retries the call returns an
\* all-absent list of length len(texts).
C17_RetryWithHalf ==
  /\ \A k \in 2..Len(passes) : passes[k] = passes[k - 1] \div 2
  /\ Len(passes) <= MaxBatchRetries + 1
  /\ (batch_error # NoError /\ IsTooLargeMessage(batch_error) /\ batch_retry = MaxBatchRetries
        /\ batch_pc # "call")
       => batch_pc = "done" /\ batch_result = AllAbsent(batch_texts)

\* the titles of the articles taken so far whose loop body ended in Ending
TitlesThatEnded(Ending) ==
  LET taken == SelectSeq([i \in 1..Len(fates) |-> i], LAMBDA i : fates[i] \in Ending)
  IN [k \in 1..Len(taken) |-> articles[taken[k]]]

\* C18: in process_articles, for every list of articles and every pattern of
\* failures, each input article ends in exactly one of results and
\* failed_articles (successful + failed = total_articles), the failed ones
\* are listed by title, and a failure of one article does not stop the
\* processing of the articles after it.
C18_EveryArticleInOneList ==
  op \in {"process_articles", "returned"} =>
    /\ Len(fates) = article_index
    /\ [k \in 1..Len(results) |-> results[k].title] = TitlesThatEnded({"ok"})
    /\ failed_articles = TitlesThatEnded({"not_success", "raised"})
    /\ op = "returned" =>
          /\ Len(fates) = Len(articles)
          /\ response.successful + response.failed = response.total_articles
          /\ response.total_articles = Len(articles)

\* a request of MaxArticles articles whose first article raised after a
\* chunk was inserted and whose last article succeeded
C18_Witness ==
  /\ op = "returned"
  /\ Len(articles) = MaxArticles
  /\ fates[1] = "raised"
  /\ db_chunks # <<>>
  /\ fates[Len(fates)] = "ok"
  /\ response.failed = Len(articles) - 1

\* the documents of all_chunks_data that are in the collection
PersistedOfLoad ==
  {k \in 1..Len(all_chunks_data) : StoredCopies(db_chunks, all_chunks_data[k].id) >= 1}

\* C19: in load_articles_from_json (normal mode), when the bulk insert of
\* all chunks fails, every chunk is then inserted individually; afterwards
\* every chunk the storage accepts is persisted exactly once, and the
\* returned chunks_created equals the number of chunk records actually
\* persisted, also when the unordered bulk insert had persisted part of the
\* batch before failing; chunks that fail individually are counted as not
\* created.
C19_FallbackPersistsAndCounts ==
  (op = "returned" /\ ~dry_run /\ all_chunks_data # <<>>) =>
    /\ \A k \in 1..Len(all_chunks_data) :
         StoredCopies(db_chunks, all_chunks_data[k].id) = (IF k \in rejected THEN 0 ELSE 1)
    /\ response.chunks_created = Cardinality(PersistedOfLoad)

\* this document has an embedding
HasEmbedding(doc) == doc.embedding \notin {Missing, "None"}

\* C20: after any sequence of ingestion operations (process_articles,
\* load_articles_from_json, upload_pdf, upload_pdf_batch, create_chunk,
\* update_chunk), every stored chunk that has an embedding also has
\* embedding_model set to the identifier of the model that produced it
\* (here: set to some identifier at all).
C20_EmbeddingPairedWithModel ==
  \A k \in 1..Len(db_chunks) :
    HasEmbedding(db_chunks[k]) => db_chunks[k].embedding_model \notin {Missing, "None"}

\* C21: for every chunk returned by create_chunks (ChunkingService and
\* PDFProcessor), char_count equals the number of characters of that chunk's
\* text field and word_count equals the number of whitespace-separated words
\* of that text field.
C21_CountsOfTextField ==
  pc = "done" =>
    \A k \in 1..Len(chunks) :
      /\ chunks[k].char_count = Len(chunks[k].text)
      /\ chunks[k].word_count = WordCount(chunks[k].text)

\* C22: for every text and every chunk_size >= 1 and
\* 0 <= chunk_overlap < chunk_size, the chunks returned by
\* ChunkingService.create_chunks make forward progress at every step:
\* start_pos strictly increases from each chunk to the next, so no window
\* (same start_pos and end_pos) is emitted twice.
C22_StartPosIncreases ==
  (service = "chunking" /\ pc = "done" /\ ~IsShort(text, size) /\ overlap < size) =>
    \A k \in 1..(Len(chunks) - 1) : chunks[k].start_pos < chunks[k + 1].start_pos

\* the offset in the window of its last sentence terminator, -1 if none
LastTerminatorOffset(window) ==
  LET at == {i \in 1..Len(window) : window[i] \in Terminators}
  IN IF at = {} THEN -1 ELSE Max(at) - 1

\* C23: in ChunkingService.create_chunks, for every window that is not the
\* final one (start + chunk_size < len(text)): if the last sentence
\* terminator inside the window sits at a window offset of at least 50% of
\* chunk_size, the chunk ends immediately after that terminator
\* (end_pos = start + offset + 1); otherwise it ends at the raw boundary
\* start + chunk_size; the final window is never shortened.
C23_SnapAtHalfOrMore ==
  (service = "chunking" /\ pc \in {"loop", "done"} /\ ~IsShort(text, size)) =>
    \A k \in 1..Len(chunks) :
      LET s == chunks[k].start_pos
          offset == LastTerminatorOffset(Slice(text, s, s + size))
      IN chunks[k].end_pos =
           IF s + size < Len(text)
           THEN IF offset >= 0 /\ 2 * offset >= size THEN s + offset + 1 ELSE s + size
           ELSE Len(text)

\* C24: for every text whose sentences are each no longer than chunk_size,
\* and every 0 <= chunk_overlap < chunk_size, every chunk returned by
\* PDFProcessor.create_chunks has at most chunk_size characters, including
\* the chunks that begin with the overlap suffix of the previous chunk.
C24_PdfChunkWithinSize ==
  (/\ service = "pdf"
   /\ pc = "done"
   /\ overlap < size
   /\ \A i \in 1..Len(SplitIntoSentences(PdfCleanText(text))) :
        Len(SplitIntoSentences(PdfCleanText(text))[i]) <= size) =>
    \A k \in 1..Len(chunks) : Len(chunks[k].text) <= size

\* the _ids of the documents this call of load_articles_from_json built
LoadedIds == {all_chunks_data[k].id : k \in 1..Len(all_chunks_data)}

\* C25: with check_duplicates=True, load_articles_from_json does not
\* persist a chunk whose text duplicates a chunk that was already stored
\* with an embedding; in particular, loading the same file again does not
\* store its chunks a second time.
C25_NoDuplicateOfStored ==
  (op = "returned" /\ check_duplicates /\ ~dry_run) =>
    \A p \in 1..Len(db_chunks), q \in 1..Len(db_chunks) :
      ~ /\ db_chunks[p].id \notin LoadedIds
        /\ HasEmbedding(db_chunks[p])
        /\ db_chunks[q].id \in LoadedIds
        /\ db_chunks[q].text = db_chunks[p].text

\* C26: after upload_pdf stored the chunks of a file F, get_chunks_by_pdf(F)
\* answers with exactly those chunks, ordered by chunk_index.
C26_UploadedChunksAreFound ==
  ( /\ chunks_response.status # 0
    /\ upload_response.success
    /\ upload_response.chunk_ids # <<>>
    /\ chunks_response.source_filename = upload_response.filename ) =>
    /\ chunks_response.status = 200
    /\ chunks_response.chunks = upload_response.chunk_ids

\* the statement of C27 as written: in dry-run mode process_articles
\* inserts nothing, makes no duplicate query and reports every article of
\* the request in results with duplicates_skipped = 0
C27_DryRunReportsEveryArticle ==
  (op = "returned" /\ dry_run) =>
    /\ db_chunks = <<>>
    /\ queries = 0
    /\ Len(results) = Len(articles)
    /\ \A k \in 1..Len(results) : results[k].duplicates_skipped = 0

\* C27: in dry-run mode process_articles leaves the chunk collection
\* unchanged: it performs no insert and no duplicate query for any
\* article, every article whose processing succeeds is reported in results
\* with duplicates_skipped = 0, and every other article is reported in
\* failed_articles.
C27_DryRunLeavesCollection ==
  (op \in {"process_articles", "returned"} /\ dry_run) =>
    /\ db_chunks = <<>>
    /\ queries = 0
    /\ \A k \in 1..Len(results) : results[k].duplicates_skipped = 0
    /\ Len(results) = Cardinality({i \in 1..Len(fates) : fates[i] = "ok"})
    /\ Len(failed_articles) = Cardinality({i \in 1..Len(fates) : fates[i] # "ok"})
    /\ op = "returned" => Len(fates) = Len(articles)

C27_Witness ==
  /\ op = "returned"
  /\ dry_run
  /\ Len(results) >= 1
  /\ results[1].chunks_created >= 1
  /\ Len(failed_articles) >= 1

\* C29: for every readable JSON list of articles, the empty list included,
\* and in DRY_RUN as in normal mode, load_articles_from_json runs its
\* phases and returns its statistics with success = True; it does not
\* raise.
C29_LoadReturnsSuccess ==
  op \in {"returned", "raised"} => (op = "returned" /\ response.success)

\* C30: when a request to process_articles that is not a dry run returns,
\* its total_chunks_created equals the number of documents the request
\* inserted into the collection.
C30_TotalCountsInserted ==
  (op = "returned" /\ ~dry_run) => response.total_chunks_created = Len(db_chunks)

\* C28: two calls of process_articles that run concurrently with different
\* similarity_threshold, chunk_size or chunk_overlap each use their own
\* values: every chunking of a call uses the chunk_size and chunk_overlap
\* of that call, and every duplicate comparison of a call uses its
\* similarity_threshold.
C28_EachCallUsesItsOwnSettings ==
  \A r \in Handlers :
    /\ handlers[r].used_settings \subseteq {handlers[r].settings}
    /\ handlers[r].used_thresholds \subseteq {handlers[r].similarity_threshold}

====
